---- MODULE Spec2Model ----
(***************************************************************************)
(* The log-management engine of nodeloggerg (src/nodeloggerg/app.js,       *)
(* createLogManager): the ingestion pipeline log(), the ring buffer, the   *)
(* metrics, the event bus, the file sink with rotation, the realtime       *)
(* sessions and the access gate of the HTTP surface.                       *)
(*                                                                         *)
(* Strings are sequences of tokens (each token a TLA+ string), so that     *)
(* joining, formatting and splitting are computed and not assumed.         *)
(* A log() call is a process: its synchronous prefix is one action, and    *)
(* every await of the source is a point where other calls may run.         *)
(***************************************************************************)
EXTENDS Integers, Sequences, FiniteSets, TLC

(***************************************************************************)
(* Bounds of the model.                                                    *)
(***************************************************************************)
\* Number of log() calls issued in one behaviour.
MaxCalls == 3
\* Number of log() calls that are in flight at the same time.
MaxInFlight == 2
\* Number of clock advances in one behaviour.
MaxTicks == 2
\* Capacity of the ring buffer: MAX_BUFFER_SIZE is 1000 in app.js:306,
\* scaled down so that eviction happens within MaxCalls calls.
MAX_BUFFER_SIZE == 2
\* Rotation threshold: MAX_FILE_SIZE is 5 MiB in app.js:17, scaled down
\* (sizes are counted in tokens) so that a file of one short line is below
\* it and a file of one long line or of two lines has reached it.
MAX_FILE_SIZE == 14

\* updateMetrics: a minute, in milliseconds (app.js:390).
MinuteMs == 60000
\* updateMetrics: the number of per-minute snapshots kept (app.js:397).
MaxMinuteSamples == 60
\* The socket sends the last 50 buffered entries on connect (app.js:823):
\* scaled down, and below MAX_BUFFER_SIZE as 50 is below 1000.
InitialLogsCount == 1
\* The realtime sessions that connect in one behaviour.
MaxSessions == 2

Calls == 1..MaxCalls
Sessions == 1..MaxSessions

(***************************************************************************)
(* Strings as token sequences.                                             *)
(***************************************************************************)
Min(a, b) == IF a <= b THEN a ELSE b

Max(a, b) == IF a >= b THEN a ELSE b

\* Array.prototype.join(sep) on an array of strings.
RECURSIVE Join(_, _)
Join(parts, sep) ==
  IF parts = <<>> THEN <<>>
  ELSE IF Len(parts) = 1 THEN Head(parts)
  ELSE Head(parts) \o <<sep>> \o Join(Tail(parts), sep)

\* String.prototype.split(sep): the fields between the separators.
RECURSIVE Split(_, _)
Split(s, sep) ==
  IF \A i \in 1..Len(s) : s[i] # sep THEN <<s>>
  ELSE LET i == CHOOSE j \in 1..Len(s) :
                  s[j] = sep /\ \A k \in 1..(j - 1) : s[k] # sep
       IN <<SubSeq(s, 1, i - 1)>> \o Split(SubSeq(s, i + 1, Len(s)), sep)

\* String.prototype.replace(pattern, by) with a string pattern: the first
\* occurrence only, the string unchanged when there is none.
ReplaceFirst(s, tok, by) ==
  IF \A i \in 1..Len(s) : s[i] # tok THEN s
  ELSE LET i == CHOOSE j \in 1..Len(s) :
                  s[j] = tok /\ \A k \in 1..(j - 1) : s[k] # tok
       IN SubSeq(s, 1, i - 1) \o by \o SubSeq(s, i + 1, Len(s))

\* String.prototype.toUpperCase() on the level names of the model.
ToUpperCase(s) ==
  CASE s = "info" -> "INFO"
    [] s = "error" -> "ERROR"
    [] s = "warn" -> "WARN"
    [] s = "debug" -> "DEBUG"
    [] s = "oops" -> "OOPS"
    [] OTHER -> s

\* The elements of a sequence.
Range(s) == {s[i] : i \in 1..Len(s)}

\* The last n elements of a sequence: Array.prototype.slice(-n).
LastN(s, n) == SubSeq(s, Max(1, Len(s) - n + 1), Len(s))

(***************************************************************************)
(* Configuration (createLogManager, app.js:188-239).                       *)
(***************************************************************************)
\* The arguments of the log() calls: a level name (two configured ones and
\* one that is not) and the values after it.
LogArgs ==
  { [level |-> "info", args |-> <<"a">>],
    [level |-> "error", args |-> <<"b">>],
    [level |-> "oops", args |-> <<"a">>] }

\* The default level list has "info" first; the model configures two levels.
DefaultLevels == <<"info", "error">>

\* An alert rule: the level it fires on and an optional pattern ("" for none).
AlertRules == {<<>>, <<[level |-> "error", pattern |-> ""]>>}

\* The base name of the log file: the default logs.txt, and a name without
\* ".txt" such as the README's custom-log-file.log.
LogFileNames == {<<"logs", ".txt">>, <<"app", ".log">>}

\* The options a logger is created with; resolved as in app.js:190-234.
ResolveConfig(o) ==
  [ levels |-> o.levels,
    defaultLevel |-> IF o.logLevel # "" THEN o.logLevel ELSE o.levels[1],
    consoleOnly |-> o.consoleOnly,
    fileOnly |-> o.fileOnly,
    enableMetrics |-> o.enableMetrics,
    compressOldLogs |-> o.compressOldLogs,
    emailAlerts |-> o.emailAlerts,
    dbConfig |-> o.dbConfig,
    logFile |-> o.logFile,
    logDir |-> o.logDir,
    startWebServer |-> o.startWebServer,
    enableRealtime |-> o.enableRealtime,
    authEnabled |-> o.authEnabled,
    bypassIpCheck |-> o.bypassIpCheck,
    allowedIPs |-> o.allowedIPs,
    username |-> o.username,
    password |-> o.password ]

\* A variant of ValidConfig that accepts every configuration.
ValidConfigAcceptsAll(cfg) == cfg.consoleOnly \in BOOLEAN

\* The construction-time validation (app.js:237-239).
ValidConfig(cfg) == ~(cfg.consoleOnly /\ cfg.fileOnly)

(***************************************************************************)
(* State.                                                                  *)
(***************************************************************************)
VARIABLES
  instance,    \* whether createLogManager returned an instance (app.js:1017)
  dirs,        \* the directories that exist
  methods,     \* the per-level accessors of the instance (app.js:312):
               \* accessor name -> the level it passes to log()
  emitted,     \* history: the payloads of the "configChanged" emissions
  config,      \* the effective configuration (app.js:190)
  now,         \* the wall clock, in milliseconds
  ticks,       \* clock advances so far
  faults,      \* whether a file-system operation has failed for a reason
               \* outside the engine (at most one does in a behaviour)
  metrics,     \* app.js:296
  logBuffer,   \* app.js:305
  ingested,    \* history: every entry built by log(), in order
  listeners,   \* logEmitter: event name -> the callbacks, in order added
  received,    \* per callback, the payloads it was invoked with
  subscribed,  \* history: the <<event, callback>> passed to on() and not
               \* to off() or to the handle's remove() since
  calls,       \* the log() calls: position, arguments, entry, steps done
  consoleOut,  \* the lines written by console.log
  db,          \* the entries handed to the persistence collaborator
  fs,          \* the log directory: file name -> lines
  server,      \* the HTTP server (app.js:621) and whether Socket.IO is
               \* attached to it (io, app.js:309)
  sessions,    \* the realtime sessions: address, credentials, inbox
  lastHttp,    \* the last HTTP request and the response it got
  query        \* the last call of a reading operation of the instance
               \* (filterLogs, exportLogsAsCsv, getMetrics) and the value
               \* it returned to the caller

vars == <<instance, dirs, methods, emitted, config, now, ticks, faults, metrics, logBuffer, ingested, listeners,
          received, subscribed, calls, consoleOut, db, fs, server, sessions,
          lastHttp, query>>

\* What log(), the subscriptions, the server and the sessions leave alone.
setup == <<instance, dirs, methods, emitted, query>>

\* Whether the Socket.IO server exists.
io == server.io

Events == {"log", "configChanged"}

\* The callbacks a client registers: one that returns, one that throws.
Callbacks == {"cb", "cbThrows"}

Throws(cb) == cb = "cbThrows"

NoEntry ==
  [level |-> "", timestamp |-> <<>>, message |-> <<>>,
   formattedMessage |-> <<>>]

IdleCall ==
  [pc |-> "idle", level |-> "", args |-> <<>>, entry |-> NoEntry,
   steps |-> <<>>, rule |-> 0, mails |-> <<>>, archive |-> <<>>,
   rotated |-> FALSE, failed |-> "", file |-> <<>>]

\* joined and left are history: the number of entries ingested before the
\* session connected and before it disconnected.
NoSession ==
  [state |-> "none", ip |-> "", auth |-> <<>>, inbox |-> <<>>,
   joined |-> 0, left |-> 0]

(***************************************************************************)
(* Entries (log, app.js:505-532).                                          *)
(***************************************************************************)
\* formatTimestamp (app.js:376-381): the ISO date, a space, and the time cut
\* to the second. The date does not change within the model's clock range.
formatTimestamp(t) == <<"2025-01-01", " ", ToString(t \div 1000)>>

\* app.js:515-520: an Error becomes its message, " \n" and its stack (the
\* value "Error: boom" stands for new Error("boom"), whose stack is its
\* name and message and the line of a frame); a string is itself, and the
\* value "say \"hi\"" is a string with two double quotes in it.
Stringify(arg) ==
  CASE arg = "Error: boom" -> <<"boom", " ", "\n", "Error: boom", "\n", "at f">>
    [] arg = "say \"hi\"" -> <<"say", " ", "\"", "hi", "\"">>
    [] arg = "{a: 1}" -> <<"{", "\"", "a", "\"", ":", "1", "}">>
    [] OTHER -> <<arg>>

\* app.js:516-517: null is an object that is not an Error, and
\* Object.getOwnPropertyNames(null) throws a TypeError (the value "null"
\* stands for null; "undefined", "42" and "{a: 1}" stand for undefined, a
\* number and a plain object, which are converted).
StringifyThrows(arg) == arg = "null"

\* The default logFormat (app.js:203-204).
logFormat(level, timestamp, message) ==
  <<"[">> \o timestamp \o <<"]", " ", "[", ToUpperCase(level), "]", ":", " ">>
    \o message

\* A variant of ResolveLevel that falls back to the default level and loses
\* the unknown level name.
ResolveLevelDropsToken(cfg, level, args) ==
  IF level \in Range(cfg.levels)
  THEN [level |-> level, args |-> args]
  ELSE [level |-> cfg.defaultLevel, args |-> args]

\* app.js:507-511: an unknown level becomes the first value, and the default
\* level is used.
ResolveLevel(cfg, level, args) ==
  IF level \in Range(cfg.levels)
  THEN [level |-> level, args |-> args]
  ELSE [level |-> cfg.defaultLevel, args |-> <<level>> \o args]

\* app.js:507-522: whether the conversion of the values throws; a level
\* that is not configured is one of the values.
MessageThrows(cfg, level, args) ==
  LET values == ResolveLevel(cfg, level, args).args
  IN \E i \in 1..Len(values) : StringifyThrows(values[i])

\* app.js:513-522.
Message(args) == Join([i \in 1..Len(args) |-> Stringify(args[i])], " ")

\* app.js:524-532.
MakeEntry(cfg, level, args, t) ==
  LET r == ResolveLevel(cfg, level, args)
      message == Message(r.args)
      timestamp == formatTimestamp(t)
  IN [level |-> r.level, timestamp |-> timestamp, message |-> message,
      formattedMessage |-> logFormat(r.level, timestamp, message)]

(***************************************************************************)
(* Metrics (updateMetrics, app.js:383-408).                                *)
(***************************************************************************)
InitMetrics(t) ==
  [totalLogs |-> 0, logsByLevel |-> <<>>, logsPerMinute |-> <<>>,
   errorsPerMinute |-> 0, lastMinuteTimestamp |-> t]

\* logsByLevel as a function whose domain is the levels counted so far.
CountOf(byLevel, level) ==
  IF level \in DOMAIN byLevel THEN byLevel[level] ELSE 0

\* A variant of updateMetrics that keeps every sample it has taken.
updateMetricsKeepsAllSamples(m, cfg, level, t) ==
  IF ~cfg.enableMetrics THEN m
  ELSE
    LET total == m.totalLogs + 1
        byLevel == [l \in DOMAIN m.logsByLevel \cup {level} |->
                      IF l = level THEN CountOf(m.logsByLevel, l) + 1
                      ELSE m.logsByLevel[l]]
        boundary == t - m.lastMinuteTimestamp >= MinuteMs
        pushed == Append(m.logsPerMinute,
                         [timestamp |-> m.lastMinuteTimestamp, count |-> total])
        errors == IF boundary THEN 0 ELSE m.errorsPerMinute
    IN [totalLogs |-> total,
        logsByLevel |-> byLevel,
        logsPerMinute |-> IF boundary THEN pushed ELSE m.logsPerMinute,
        errorsPerMinute |-> IF level = "error" THEN errors + 1 ELSE errors,
        lastMinuteTimestamp |-> IF boundary THEN t ELSE m.lastMinuteTimestamp]

\* A variant of updateMetrics that sets the count of a level to 1 instead of
\* adding 1 to it.
updateMetricsOverwritesLevel(m, cfg, level, t) ==
  IF ~cfg.enableMetrics THEN m
  ELSE [m EXCEPT !.totalLogs = @ + 1,
                 !.logsByLevel = [l \in DOMAIN @ \cup {level} |->
                                    IF l = level THEN 1 ELSE @[l]]]

\* A variant of updateMetrics that takes a sample at every call.
updateMetricsSamplesEveryCall(m, cfg, level, t) ==
  IF ~cfg.enableMetrics THEN m
  ELSE
    LET total == m.totalLogs + 1
        byLevel == [l \in DOMAIN m.logsByLevel \cup {level} |->
                      IF l = level THEN CountOf(m.logsByLevel, l) + 1
                      ELSE m.logsByLevel[l]]
        pushed == Append(m.logsPerMinute,
                         [timestamp |-> m.lastMinuteTimestamp, count |-> total])
    IN [totalLogs |-> total,
        logsByLevel |-> byLevel,
        logsPerMinute |-> IF Len(pushed) > MaxMinuteSamples THEN Tail(pushed)
                          ELSE pushed,
        errorsPerMinute |-> IF level = "error" THEN 1 ELSE 0,
        lastMinuteTimestamp |-> t]

updateMetrics(m, cfg, level, t) ==
  IF ~cfg.enableMetrics THEN m
  ELSE
    LET total == m.totalLogs + 1
        byLevel == [l \in DOMAIN m.logsByLevel \cup {level} |->
                      IF l = level THEN CountOf(m.logsByLevel, l) + 1
                      ELSE m.logsByLevel[l]]
        boundary == t - m.lastMinuteTimestamp >= MinuteMs
        pushed == Append(m.logsPerMinute,
                         [timestamp |-> m.lastMinuteTimestamp, count |-> total])
        perMinute == IF ~boundary THEN m.logsPerMinute
                     ELSE IF Len(pushed) > MaxMinuteSamples THEN Tail(pushed)
                     ELSE pushed
        errors == IF boundary THEN 0 ELSE m.errorsPerMinute
    IN [totalLogs |-> total,
        logsByLevel |-> byLevel,
        logsPerMinute |-> perMinute,
        errorsPerMinute |-> IF level = "error" THEN errors + 1 ELSE errors,
        lastMinuteTimestamp |-> IF boundary THEN t ELSE m.lastMinuteTimestamp]

(***************************************************************************)
(* Ring buffer (app.js:537-543).                                           *)
(***************************************************************************)
\* A variant of BufferPush that puts the entry at the front of the buffer.
BufferPushAtFront(buf, e) ==
  LET pushed == <<e>> \o buf
  IN IF Len(pushed) > MAX_BUFFER_SIZE
     THEN SubSeq(pushed, 1, Len(pushed) - 1) ELSE pushed

\* A variant of BufferPush that evicts the newest entry (pop for shift).
BufferPushEvictsNewest(buf, e) ==
  LET pushed == Append(buf, e)
  IN IF Len(pushed) > MAX_BUFFER_SIZE
     THEN SubSeq(pushed, 1, Len(pushed) - 1) ELSE pushed

BufferPush(buf, e) ==
  LET pushed == Append(buf, e)
  IN IF Len(pushed) > MAX_BUFFER_SIZE THEN Tail(pushed) ELSE pushed

(***************************************************************************)
(* Event bus (logEmitter, app.js:304, 546, 1039-1049).                     *)
(***************************************************************************)
\* EventEmitter.on: the callback is added at the end of the event's list.
AddListener(ls, event, cb) ==
  [ls EXCEPT ![event] = Append(@, cb)]

\* EventEmitter.off: the most recently added instance of the callback is
\* removed, if there is one.
RemoveListener(ls, event, cb) ==
  LET l == ls[event]
  IN IF \A i \in 1..Len(l) : l[i] # cb THEN ls
     ELSE LET i == CHOOSE j \in 1..Len(l) :
                     l[j] = cb /\ \A k \in (j + 1)..Len(l) : l[k] # cb
          IN [ls EXCEPT ![event] = SubSeq(l, 1, i - 1) \o SubSeq(l, i + 1, Len(l))]

\* on (app.js:1040-1046): the callback is added, and the object literal that
\* is returned evaluates logEmitter.off(event, callback) at once.
OnListeners(ls, event, cb) ==
  RemoveListener(AddListener(ls, event, cb), event, cb)

\* off (app.js:1047-1049).
OffListeners(ls, event, cb) == RemoveListener(ls, event, cb)

\* EventEmitter.emit calls the listeners in order, with no try/catch: the
\* first one that throws ends the emission, and the exception leaves emit.
EmitThrows(l) == \E i \in 1..Len(l) : Throws(l[i])

\* The listeners an emission invokes: all, or up to the first that throws.
EmitInvoked(l) ==
  IF EmitThrows(l)
  THEN SubSeq(l, 1, CHOOSE i \in 1..Len(l) :
                      Throws(l[i]) /\ \A k \in 1..(i - 1) : ~Throws(l[k]))
  ELSE l

\* The number of times callback cb occurs in the sequence l.
RECURSIVE Occurrences(_, _)
Occurrences(l, cb) ==
  IF l = <<>> THEN 0
  ELSE (IF Head(l) = cb THEN 1 ELSE 0) + Occurrences(Tail(l), cb)

\* received after an emission of payload to the listeners l.
Deliver(rcv, l, payload) ==
  LET RECURSIVE Times(_, _)
      Times(r, n) == IF n = 0 THEN r ELSE Times(Append(r, payload), n - 1)
  IN [cb \in DOMAIN rcv |-> Times(rcv[cb], Occurrences(EmitInvoked(l), cb))]

(***************************************************************************)
(* File system (the fs calls of log and compressLogFile).                  *)
(***************************************************************************)
\* The size of a file: every line and its newline, counted in tokens.
RECURSIVE Size(_)
Size(lines) ==
  IF lines = <<>> THEN 0 ELSE Len(Head(lines)) + 1 + Size(Tail(lines))

\* path.join(config.logDir, path.parse(config.logFile).base) (app.js:581-584).
ActiveFile(cfg) == <<cfg.logDir, "/">> \o cfg.logFile

\* String.prototype.replace(/[: ]/g, "-") on a timestamp (app.js:591).
StampForName(timestamp) ==
  [i \in 1..Len(timestamp) |->
     IF timestamp[i] \in {" ", ":"} THEN "-" ELSE timestamp[i]]

\* app.js:589-592: the first ".txt" of the path is replaced.
ArchiveName(logFile, t) ==
  ReplaceFirst(logFile, ".txt",
               <<"_">> \o StampForName(formatTimestamp(t)) \o <<".txt">>)

\* app.js:464.
GzipName(file) == file \o <<".gz">>

\* The output of zlib's gzip stream for a file.
Gzip(lines) == <<<<"gzip">>>> \o lines

\* fs.promises.rename: the source takes the target's name, replacing a file
\* that has it; renaming a file to its own name changes nothing.
Rename(files, from, to) ==
  IF from = to THEN files
  ELSE [n \in (DOMAIN files \ {from}) \cup {to} |->
          IF n = to THEN files[from] ELSE files[n]]

\* fs.promises.unlink.
Unlink(files, name) == [n \in DOMAIN files \ {name} |-> files[n]]

\* A file created or replaced with the given content.
WriteFile(files, name, lines) ==
  [n \in DOMAIN files \cup {name} |-> IF n = name THEN lines ELSE files[n]]

\* fs.promises.appendFile(logFile, line + "\n"): the file is created when
\* it does not exist.
AppendFile(files, name, line) ==
  WriteFile(files, name,
            IF name \in DOMAIN files THEN Append(files[name], line)
            ELSE <<line>>)

(***************************************************************************)
(* Realtime fan-out (app.js:480-502).                                      *)
(***************************************************************************)
\* io.emit: every open session receives the message.
Broadcast(ss, msg) ==
  [s \in DOMAIN ss |->
     IF ss[s].state = "open" THEN [ss[s] EXCEPT !.inbox = Append(@, msg)]
     ELSE ss[s]]

notifyClientsNewLog(ss, cfg, attached, entry) ==
  IF attached /\ cfg.enableRealtime
  THEN Broadcast(ss, [type |-> "newLog", entries |-> <<entry>>])
  ELSE ss

\* A variant of notifyClientsMetricsUpdate that does not look at
\* enableMetrics.
notifyClientsMetricsUpdateAlways(ss, cfg, attached) ==
  IF attached /\ cfg.enableRealtime
  THEN Broadcast(ss, [type |-> "metricsUpdate", entries |-> <<>>])
  ELSE ss

notifyClientsMetricsUpdate(ss, cfg, attached) ==
  IF attached /\ cfg.enableRealtime /\ cfg.enableMetrics
  THEN Broadcast(ss, [type |-> "metricsUpdate", entries |-> <<>>])
  ELSE ss

notifyClientsLogRotation(ss, cfg, attached) ==
  IF attached /\ cfg.enableRealtime
  THEN Broadcast(ss, [type |-> "logRotation", entries |-> <<>>])
  ELSE ss

(***************************************************************************)
(* Alert rules (checkEmailAlerts, app.js:410-432).                         *)
(***************************************************************************)
\* String.prototype.includes for a one-token pattern.
Includes(message, pattern) == \E i \in 1..Len(message) : message[i] = pattern

\* app.js:414-417.
RuleMatches(rule, level, message) ==
  rule.level = level /\ (rule.pattern = "" \/ Includes(message, rule.pattern))

\* The index of the first matching rule at or after i, or 0.
NextRule(cfg, entry, i) ==
  LET m == {j \in i..Len(cfg.emailAlerts) :
              RuleMatches(cfg.emailAlerts[j], entry.level, entry.message)}
  IN IF m = {} THEN 0 ELSE CHOOSE j \in m : \A k \in m : j <= k

(***************************************************************************)
(* log(level, ...args) (app.js:505-618).                                   *)
(***************************************************************************)
\* The steps of the synchronous prefix, in the order of app.js:534-552;
\* an exception thrown by a listener leaves log() at the emission.
SyncSteps(threw) ==
  IF threw THEN <<"metrics", "buffer", "emit">>
  ELSE <<"metrics", "buffer", "emit", "realtime", "alerts">>

\* A variant of SinkSteps that writes the console line before the
\* persistence write is started.
SinkStepsConsoleFirst(cfg) ==
  (IF ~cfg.fileOnly THEN <<"console">> ELSE <<>>)
    \o (IF cfg.dbConfig THEN <<"persist">> ELSE <<>>)
    \o (IF ~cfg.consoleOnly THEN <<"file">> ELSE <<>>)

\* The steps that follow the alerts, in the order of app.js:554-578.
SinkSteps(cfg) ==
  (IF cfg.dbConfig THEN <<"persist">> ELSE <<>>)
    \o (IF ~cfg.fileOnly THEN <<"console">> ELSE <<>>)
    \o (IF ~cfg.consoleOnly THEN <<"file">> ELSE <<>>)

\* console.log of app.js:560-575: the colour format of the level when the
\* file is written too, and the line.
ConsoleLine(cfg, entry) ==
  [fmt |-> IF ~cfg.consoleOnly /\ entry.level \in {"info", "warn", "error", "debug"}
           THEN entry.level ELSE "%s",
   line |-> entry.formattedMessage]

\* A variant of AfterRule that gives up the remaining rules after the
\* first attempt.
AfterRuleStopsAtFirst(cfg, call, i) ==
  LET j == IF i > 1 THEN 0 ELSE NextRule(cfg, call.entry, i)
  IN IF j = 0 THEN [call EXCEPT !.pc = "alerted", !.rule = 0]
     ELSE [call EXCEPT !.pc = "mail", !.rule = j]

\* The call after its await of checkEmailAlerts: waiting for the mail of the
\* next matching rule, or ready to go on.
AfterRule(cfg, call, i) ==
  LET j == NextRule(cfg, call.entry, i)
  IN IF j = 0 THEN [call EXCEPT !.pc = "alerted", !.rule = 0]
     ELSE [call EXCEPT !.pc = "mail", !.rule = j]

\* app.js:611-617: the metrics are pushed and the entry is returned.
Return(c, call) ==
  /\ calls' = [calls EXCEPT ![c] = [call EXCEPT !.pc = "returned"]]
  /\ sessions' = notifyClientsMetricsUpdate(sessions, config, io)

\* The first of the calls not yet issued; calls are numbered as issued.
InFlight == {c \in Calls : calls[c].pc \notin {"idle", "returned", "rejected"}}

CanIssue(c) ==
  /\ instance
  /\ calls[c].pc = "idle"
  /\ IF c = 1 THEN TRUE ELSE calls[c - 1].pc # "idle"
  /\ Cardinality(InFlight) < MaxInFlight

\* The caller awaits every call before it issues the next one.
Awaited == InFlight = {}

\* The synchronous prefix of log (app.js:505-552): the entry is built, the
\* metrics and the buffer are updated, the "log" event is emitted, the
\* sessions are notified and checkEmailAlerts is entered.
LogSync(c, level, args) ==
  /\ CanIssue(c)
  /\ ~MessageThrows(config, level, args)
  /\ LET entry == MakeEntry(config, level, args, now)
         threw == EmitThrows(listeners["log"])
         started == [calls[c] EXCEPT !.level = level, !.args = args,
                                     !.entry = entry, !.steps = SyncSteps(threw)]
     IN /\ metrics' = updateMetrics(metrics, config, entry.level, now)
        /\ logBuffer' = BufferPush(logBuffer, entry)
        /\ ingested' = Append(ingested, entry)
        /\ received' = Deliver(received, listeners["log"], entry)
        /\ IF threw
           THEN /\ calls' = [calls EXCEPT ![c] = [started EXCEPT !.pc = "rejected"]]
                /\ UNCHANGED sessions
           ELSE /\ calls' = [calls EXCEPT ![c] = AfterRule(config, started, 1)]
                /\ sessions' = notifyClientsNewLog(sessions, config, io, entry)
  /\ UNCHANGED <<setup, config, now, ticks, faults, listeners, subscribed, consoleOut,
                 db, fs, server, lastHttp>>

\* A log() call whose values cannot be converted (app.js:513-522): the
\* TypeError leaves the async function before the entry is built, and the
\* promise of the call is rejected.
LogRejects(c, level, args) ==
  /\ CanIssue(c)
  /\ MessageThrows(config, level, args)
  /\ calls' = [calls EXCEPT ![c] = [@ EXCEPT !.level = level, !.args = args,
                                              !.pc = "rejected"]]
  /\ UNCHANGED <<setup, config, now, ticks, faults, metrics, logBuffer, ingested,
                 listeners, received, subscribed, consoleOut, db, fs, server,
                 sessions, lastHttp>>

\* The outcomes of the try block of app.js:418-426: the mail is sent, or
\* the block throws (nodemailer exports createTransport; createTransporter,
\* the name called at app.js:419, makes the block throw a TypeError).
MailOutcomes == {"sent", "failed"}

\* The attempt of a matching rule ends (app.js:418-429): a failure is caught
\* and written to console.error; either way the loop goes on with the next
\* rule.
MailDone(c) ==
  /\ calls[c].pc = "mail"
  /\ \E out \in MailOutcomes :
       calls' = [calls EXCEPT ![c] =
                   AfterRule(config, [calls[c] EXCEPT !.mails = Append(@, out)],
                             calls[c].rule + 1)]
  /\ UNCHANGED <<setup, config, now, ticks, faults, metrics, logBuffer, ingested,
                 listeners, received, subscribed, consoleOut, db, fs, server,
                 sessions, lastHttp>>

\* A variant of AfterAlerts that goes on only when every earlier call has
\* settled.
AfterAlertsAwaitsEarlierCalls(c) ==
  /\ calls[c].pc = "alerted"
  /\ \A d \in Calls : d < c => calls[d].pc \in {"returned", "rejected"}
  /\ LET call == [calls[c] EXCEPT !.steps = @ \o SinkSteps(config)]
     IN /\ db' = IF config.dbConfig THEN Append(db, call.entry) ELSE db
        /\ consoleOut' = IF ~config.fileOnly
                         THEN Append(consoleOut, ConsoleLine(config, call.entry))
                         ELSE consoleOut
        /\ IF config.consoleOnly
           THEN Return(c, call)
           ELSE /\ calls' = [calls EXCEPT ![c] =
                      [call EXCEPT !.file = ActiveFile(config),
                                   !.pc = IF ActiveFile(config) \in DOMAIN fs
                                          THEN "stat" ELSE "append"]]
                /\ UNCHANGED sessions
  /\ UNCHANGED <<setup, config, now, ticks, faults, metrics, logBuffer, ingested,
                 listeners, received, subscribed, fs, server, lastHttp>>

\* A variant of AfterAlerts that writes the console line in every mode.
AfterAlertsAlwaysConsole(c) ==
  /\ calls[c].pc = "alerted"
  /\ LET call == [calls[c] EXCEPT !.steps = @ \o SinkSteps(config)]
     IN /\ db' = IF config.dbConfig THEN Append(db, call.entry) ELSE db
        /\ consoleOut' = Append(consoleOut, ConsoleLine(config, call.entry))
        /\ IF config.consoleOnly
           THEN Return(c, call)
           ELSE /\ calls' = [calls EXCEPT ![c] =
                      [call EXCEPT !.file = ActiveFile(config),
                                   !.pc = IF ActiveFile(config) \in DOMAIN fs
                                          THEN "stat" ELSE "append"]]
                /\ UNCHANGED sessions
  /\ UNCHANGED <<setup, config, now, ticks, faults, metrics, logBuffer, ingested,
                 listeners, received, subscribed, fs, server, lastHttp>>

\* app.js:554-586: the persistence write is started and not awaited, the
\* console line is written, and the file part begins with existsSync.
AfterAlerts(c) ==
  /\ calls[c].pc = "alerted"
  /\ LET call == [calls[c] EXCEPT !.steps = @ \o SinkSteps(config)]
     IN /\ db' = IF config.dbConfig THEN Append(db, call.entry) ELSE db
        /\ consoleOut' = IF ~config.fileOnly
                         THEN Append(consoleOut, ConsoleLine(config, call.entry))
                         ELSE consoleOut
        /\ IF config.consoleOnly
           THEN Return(c, call)
           ELSE /\ calls' = [calls EXCEPT ![c] =
                      [call EXCEPT !.file = ActiveFile(config),
                                   !.pc = IF ActiveFile(config) \in DOMAIN fs
                                          THEN "stat" ELSE "append"]]
                /\ UNCHANGED sessions
  /\ UNCHANGED <<setup, config, now, ticks, faults, metrics, logBuffer, ingested,
                 listeners, received, subscribed, fs, server, lastHttp>>

\* A file-system operation fails for a reason outside the engine.
Fault ==
  /\ ~faults
  /\ faults' = TRUE

\* await fs.promises.stat (app.js:587-592): ENOENT when the file is gone;
\* otherwise the size decides, and the archive name is computed.
StatDone(c) ==
  /\ calls[c].pc = "stat"
  /\ \/ /\ Fault
        /\ Return(c, [calls[c] EXCEPT !.failed = "stat"])
     \/ /\ UNCHANGED faults
        /\ IF calls[c].file \notin DOMAIN fs
           THEN Return(c, calls[c])
           ELSE /\ calls' = [calls EXCEPT ![c] =
                      IF Size(fs[calls[c].file]) >= MAX_FILE_SIZE
                      THEN [@ EXCEPT !.pc = "rename",
                                     !.archive = ArchiveName(calls[c].file, now)]
                      ELSE [@ EXCEPT !.pc = "append"]]
                /\ UNCHANGED sessions
  /\ UNCHANGED <<setup, config, now, ticks, metrics, logBuffer, ingested, listeners,
                 received, subscribed, consoleOut, db, fs, server, lastHttp>>

\* A variant of RenameDone in which a call whose file is gone goes on to
\* its append.
RenameDoneAppendsAnyway(c) ==
  /\ calls[c].pc = "rename"
  /\ \/ /\ Fault
        /\ Return(c, [calls[c] EXCEPT !.failed = "rename"])
        /\ UNCHANGED fs
     \/ /\ UNCHANGED faults
        /\ IF calls[c].file \notin DOMAIN fs
           THEN /\ calls' = [calls EXCEPT ![c].pc = "append"]
                /\ UNCHANGED <<fs, sessions>>
           ELSE /\ fs' = Rename(fs, calls[c].file, calls[c].archive)
                /\ calls' = [calls EXCEPT ![c] =
                      [@ EXCEPT !.rotated = TRUE,
                                !.pc = IF config.compressOldLogs THEN "gzip"
                                       ELSE "append"]]
                /\ sessions' = IF config.compressOldLogs THEN sessions
                               ELSE notifyClientsLogRotation(sessions, config, io)
  /\ UNCHANGED <<setup, config, now, ticks, metrics, logBuffer, ingested, listeners,
                 received, subscribed, consoleOut, db, server, lastHttp>>

\* await fs.promises.rename (app.js:593-601): ENOENT when the file is gone;
\* then compression if enabled, else the rotation notice and the append.
RenameDone(c) ==
  /\ calls[c].pc = "rename"
  /\ \/ /\ Fault
        /\ Return(c, [calls[c] EXCEPT !.failed = "rename"])
        /\ UNCHANGED fs
     \/ /\ UNCHANGED faults
        /\ IF calls[c].file \notin DOMAIN fs
           THEN /\ Return(c, calls[c])
                /\ UNCHANGED fs
           ELSE /\ fs' = Rename(fs, calls[c].file, calls[c].archive)
                /\ calls' = [calls EXCEPT ![c] =
                      [@ EXCEPT !.rotated = TRUE,
                                !.pc = IF config.compressOldLogs THEN "gzip"
                                       ELSE "append"]]
                /\ sessions' = IF config.compressOldLogs THEN sessions
                               ELSE notifyClientsLogRotation(sessions, config, io)
  /\ UNCHANGED <<setup, config, now, ticks, metrics, logBuffer, ingested, listeners,
                 received, subscribed, consoleOut, db, server, lastHttp>>

\* A variant of GzipDone in which a failed compression removes the archive.
GzipDoneDropsArchive(c) ==
  /\ calls[c].pc = "gzip"
  /\ LET archive == calls[c].archive
         failed == /\ calls' = [calls EXCEPT ![c].pc = "append"]
                   /\ sessions' = notifyClientsLogRotation(sessions, config, io)
     IN \/ /\ Fault
           /\ failed
           /\ fs' = IF archive \in DOMAIN fs THEN Unlink(fs, archive) ELSE fs
        \/ /\ UNCHANGED faults
           /\ IF archive \notin DOMAIN fs
              THEN failed /\ UNCHANGED fs
              ELSE /\ fs' = WriteFile(fs, GzipName(archive), Gzip(fs[archive]))
                   /\ calls' = [calls EXCEPT ![c].pc = "unlink"]
                   /\ UNCHANGED sessions
  /\ UNCHANGED <<setup, config, now, ticks, metrics, logBuffer, ingested, listeners,
                 received, subscribed, consoleOut, db, server, lastHttp>>

\* compressLogFile, the pipeline (app.js:464-470): the archive is read and
\* its gzip written; a failure is caught in compressLogFile (app.js:474-477)
\* and may leave a partial output file.
GzipDone(c) ==
  /\ calls[c].pc = "gzip"
  /\ LET archive == calls[c].archive
         failed == /\ calls' = [calls EXCEPT ![c].pc = "append"]
                   /\ sessions' = notifyClientsLogRotation(sessions, config, io)
     IN \/ /\ Fault
           /\ failed
           /\ \/ UNCHANGED fs
              \/ fs' = WriteFile(fs, GzipName(archive), <<>>)
        \/ /\ UNCHANGED faults
           /\ IF archive \notin DOMAIN fs
              THEN failed /\ UNCHANGED fs
              ELSE /\ fs' = WriteFile(fs, GzipName(archive), Gzip(fs[archive]))
                   /\ calls' = [calls EXCEPT ![c].pc = "unlink"]
                   /\ UNCHANGED sessions
  /\ UNCHANGED <<setup, config, now, ticks, metrics, logBuffer, ingested, listeners,
                 received, subscribed, consoleOut, db, server, lastHttp>>

\* compressLogFile, the unlink of the archive (app.js:471); then the
\* rotation notice (app.js:601).
UnlinkDone(c) ==
  /\ calls[c].pc = "unlink"
  /\ calls' = [calls EXCEPT ![c].pc = "append"]
  /\ sessions' = notifyClientsLogRotation(sessions, config, io)
  /\ \/ /\ Fault
        /\ UNCHANGED fs
     \/ /\ UNCHANGED faults
        /\ fs' = IF calls[c].archive \in DOMAIN fs
                 THEN Unlink(fs, calls[c].archive) ELSE fs
  /\ UNCHANGED <<setup, config, now, ticks, metrics, logBuffer, ingested, listeners,
                 received, subscribed, consoleOut, db, server, lastHttp>>

\* A variant of AppendDone in which a failed append rejects the call.
AppendDoneRejectsOnFault(c) ==
  /\ calls[c].pc = "append"
  /\ \/ /\ Fault
        /\ calls' = [calls EXCEPT ![c] = [@ EXCEPT !.failed = "append",
                                                   !.pc = "rejected"]]
        /\ UNCHANGED <<fs, sessions>>
     \/ /\ UNCHANGED faults
        /\ IF calls[c].file[1] \in dirs
           THEN /\ Return(c, calls[c])
                /\ fs' = AppendFile(fs, calls[c].file,
                                    calls[c].entry.formattedMessage)
           ELSE /\ Return(c, [calls[c] EXCEPT !.failed = "append"])
                /\ UNCHANGED fs
  /\ UNCHANGED <<setup, config, now, ticks, metrics, logBuffer, ingested,
                 listeners, received, subscribed, consoleOut, db, server, lastHttp>>

\* await fs.promises.appendFile (app.js:605): the file is created when it
\* does not exist, its directory is not (ENOENT); a failure is caught
\* (app.js:606-608); then the return.
AppendDone(c) ==
  /\ calls[c].pc = "append"
  /\ \/ /\ Fault
        /\ Return(c, [calls[c] EXCEPT !.failed = "append"])
        /\ UNCHANGED fs
     \/ /\ UNCHANGED faults
        /\ IF calls[c].file[1] \in dirs
           THEN /\ Return(c, calls[c])
                /\ fs' = AppendFile(fs, calls[c].file,
                                    calls[c].entry.formattedMessage)
           ELSE /\ Return(c, [calls[c] EXCEPT !.failed = "append"])
                /\ UNCHANGED fs
  /\ UNCHANGED <<setup, config, now, ticks, metrics, logBuffer, ingested, listeners,
                 received, subscribed, consoleOut, db, server, lastHttp>>

\* The wall clock advances: within a second, or past a minute.
Tick(d) ==
  /\ ticks < MaxTicks
  /\ ticks' = ticks + 1
  /\ now' = now + d
  /\ UNCHANGED <<setup, config, faults, metrics, logBuffer, ingested, listeners,
                 received, subscribed, calls, consoleOut, db, fs, server, sessions,
                 lastHttp>>

TickSteps == {500, MinuteMs}

(***************************************************************************)
(* The per-level accessors and updateConfig (app.js:314-368).              *)
(***************************************************************************)
\* A variant of generateLogMethods whose accessors all pass the last level
\* of the list.
generateLogMethodsSharedLevel(cfg) ==
  [name \in Range(cfg.levels) |-> cfg.levels[Len(cfg.levels)]]

\* generateLogMethods (app.js:314-322): one accessor per configured level,
\* which passes that level to log().
generateLogMethods(cfg) == [name \in Range(cfg.levels) |-> name]

\* A variant of updateLogMethods that leaves the old accessors on the
\* instance.
updateLogMethodsKeepsOld(current, cfg) ==
  LET new == generateLogMethods(cfg)
  IN [name \in DOMAIN current \cup DOMAIN new |->
        IF name \in DOMAIN new THEN new[name] ELSE current[name]]

\* updateLogMethods (app.js:324-339): every cached accessor is deleted from
\* the instance, and the accessors generated for the current level list
\* are cached and assigned to it.
updateLogMethods(current, cfg) ==
  LET deleted == DOMAIN current
      new == generateLogMethods(cfg)
  IN [name \in (DOMAIN current \ deleted) \cup DOMAIN new |-> new[name]]

\* Object.assign(config, newConfig) (app.js:345).
Assign(cfg, newConfig) ==
  [k \in DOMAIN cfg |-> IF k \in DOMAIN newConfig THEN newConfig[k] ELSE cfg[k]]

\* app.js:348-350: the lists differ in length or at some index.
levelsChanged(oldLevels, levels) ==
  \/ Len(oldLevels) # Len(levels)
  \/ \E i \in 1..Len(oldLevels) : oldLevels[i] # levels[i]

\* updateConfig(newConfig) (app.js:341-368).
UpdateConfig(newConfig) ==
  /\ instance
  /\ LET oldLevels == config.levels
         cfg == Assign(config, newConfig)
         payload == [oldLevels |-> oldLevels, newLevels |-> cfg.levels,
                     fullConfig |-> cfg]
     IN /\ config' = cfg
        /\ IF levelsChanged(oldLevels, cfg.levels)
           THEN /\ methods' = updateLogMethods(methods, cfg)
                /\ emitted' = Append(emitted, payload)
                /\ received' = Deliver(received, listeners["configChanged"], payload)
           ELSE UNCHANGED <<methods, emitted, received>>
  /\ UNCHANGED <<instance, dirs, now, ticks, faults, metrics, logBuffer, ingested,
                 listeners, subscribed, calls, consoleOut, db, fs, server,
                 sessions, lastHttp, query>>

\* instance[name](...args) (app.js:318): the accessor calls log().
CallAccessor(c, name, args) ==
  /\ name \in DOMAIN methods
  /\ LogSync(c, methods[name], args)

(***************************************************************************)
(* Subscriptions (on, off, app.js:1039-1049).                              *)
(***************************************************************************)
\* on(event, callback).
On(event, cb) ==
  /\ instance
  /\ <<event, cb>> \notin subscribed
  /\ listeners' = OnListeners(listeners, event, cb)
  /\ subscribed' = subscribed \cup {<<event, cb>>}
  /\ UNCHANGED <<setup, config, now, ticks, faults, metrics, logBuffer, ingested,
                 received, calls, consoleOut, db, fs, server, sessions, lastHttp>>

\* off(event, callback).
Off(event, cb) ==
  /\ instance
  /\ <<event, cb>> \in subscribed
  /\ listeners' = OffListeners(listeners, event, cb)
  /\ subscribed' = subscribed \ {<<event, cb>>}
  /\ UNCHANGED <<setup, config, now, ticks, faults, metrics, logBuffer, ingested,
                 received, calls, consoleOut, db, fs, server, sessions, lastHttp>>

\* The remove of the handle that on() returned: the handle's remove is the
\* value of logEmitter.off(...), the emitter itself, so the call throws a
\* TypeError and no listener is touched.
RemoveHandle(event, cb) ==
  /\ instance
  /\ <<event, cb>> \in subscribed
  /\ subscribed' = subscribed \ {<<event, cb>>}
  /\ UNCHANGED <<setup, config, now, ticks, faults, metrics, logBuffer, ingested,
                 listeners, received, calls, consoleOut, db, fs, server,
                 sessions, lastHttp>>

(***************************************************************************)
(* Access gate and routes of the HTTP surface (app.js:649-800).            *)
(***************************************************************************)
\* Buffer.from(text, "base64").toString("utf8") on the payloads of the model;
\* any other text decodes to bytes that are no credentials.
Base64Decode(field) ==
  CASE field = <<"YWRtaW46YWRtaW4=">> -> <<"admin", ":", "admin">>
    [] field = <<"YWRtaW46d3Jvbmc=">> -> <<"admin", ":", "wrong">>
    [] field = <<"YWRtaW46YWRtaW46eA==">> -> <<"admin", ":", "admin", ":", "x">>
    [] field = <<"YWRtaW4=">> -> <<"admin">>
    [] field = <<>> -> <<>>
    [] OTHER -> <<"?">>

\* The value of a destructured array element that does not exist.
Undefined == <<"undefined">>

\* auth.indexOf("Basic ") !== -1 (app.js:663).
HasBasic(auth) ==
  \E i \in 1..(Len(auth) - 1) : auth[i] = "Basic" /\ auth[i + 1] = " "

\* app.js:671-674: the second space-separated field is decoded, split at
\* every colon, and the first two fields are the user and the password.
ParseCredentials(auth) ==
  LET fields == Split(Base64Decode(Split(auth, " ")[2]), ":")
  IN [user |-> fields[1],
      pass |-> IF Len(fields) >= 2 THEN fields[2] ELSE Undefined]

\* A variant of GateStatus that checks the credentials before the address.
GateStatusCredentialsFirst(cfg, ip, auth) ==
  IF ~cfg.authEnabled THEN 0
  ELSE IF auth = <<>> \/ ~HasBasic(auth) THEN 401
  ELSE LET cr == ParseCredentials(auth)
       IN IF cr.user # cfg.username \/ cr.pass # cfg.password THEN 401
          ELSE IF ~cfg.bypassIpCheck /\ ip \notin cfg.allowedIPs THEN 403
          ELSE 0

\* The gate (app.js:650-683): 403, 401, or 0 when the request goes on to
\* the routes.
GateStatus(cfg, ip, auth) ==
  IF ~cfg.authEnabled THEN 0
  ELSE IF ~cfg.bypassIpCheck /\ ip \notin cfg.allowedIPs THEN 403
  ELSE IF auth = <<>> \/ ~HasBasic(auth) THEN 401
  ELSE LET cr == ParseCredentials(auth)
       IN IF cr.user # cfg.username \/ cr.pass # cfg.password THEN 401 ELSE 0

\* The route a path is dispatched to (app.js:691-800).
RouteOf(path) ==
  CASE path = <<"/">> -> "dashboard"
    [] path = <<"/logs">> -> "logs"
    [] path = <<"/metrics">> -> "metrics"
    [] path = <<"/files">> -> "files"
    [] path # <<>> /\ path[1] = "/download/" -> "download"
    [] OTHER -> "notfound"

\* A variant of RouteStatus in which /metrics answers 200 whether the
\* metrics are enabled or not.
RouteStatusMetricsAlways(cfg, files, path) ==
  LET route == RouteOf(path)
  IN CASE route = "download" -> IF <<cfg.logDir, "/">> \o Tail(path) \in DOMAIN files
                                THEN 200 ELSE 404
       [] route = "notfound" -> 404
       [] OTHER -> 200

\* The status a route answers with.
RouteStatus(cfg, files, path) ==
  LET route == RouteOf(path)
  IN CASE route = "metrics" -> IF cfg.enableMetrics THEN 200 ELSE 404
       [] route = "download" -> IF <<cfg.logDir, "/">> \o Tail(path) \in DOMAIN files
                                THEN 200 ELSE 404
       [] route = "notfound" -> 404
       [] OTHER -> 200

\* The request handler of the server (app.js:626-801).
Respond(cfg, files, ip, auth, path) ==
  LET gate == GateStatus(cfg, ip, auth)
  IN IF gate # 0
     THEN [status |-> gate, challenge |-> gate = 401, route |-> "none"]
     ELSE [status |-> RouteStatus(cfg, files, path), challenge |-> FALSE,
           route |-> RouteOf(path)]

\* The body of the answer of /metrics (app.js:754-755): the metrics as they
\* are when the request is handled, in a one-element sequence; <<>> for an
\* answer whose body is not modelled.
RouteBody(cfg, m, ip, auth, path) ==
  IF /\ GateStatus(cfg, ip, auth) = 0
     /\ RouteOf(path) = "metrics"
     /\ RouteStatus(cfg, <<>>, path) = 200
  THEN <<m>> ELSE <<>>

ClientIPs == {"127.0.0.1", "::ffff:127.0.0.1", "10.0.0.9"}

AuthHeaders ==
  { <<>>,
    <<"Basic", " ", "YWRtaW46YWRtaW4=">>,
    <<"Basic", " ", "YWRtaW46d3Jvbmc=">>,
    <<"Basic", " ", "YWRtaW46YWRtaW46eA==">>,
    <<"Basic", " ", "YWRtaW4=">>,
    <<"Basic", " ">>,
    <<"Basic">>,
    <<"Bearer", " ", "YWRtaW46YWRtaW4=">>,
    <<"x", "Basic", " ", "YWRtaW46YWRtaW4=">> }

Paths ==
  { <<"/">>, <<"/logs">>, <<"/metrics">>, <<"/files">>, <<"/nope">>,
    <<"/download/", "logs", ".txt">>, <<"/download/", "none", ".txt">> }

\* An HTTP request is answered.
HttpRequest(ip, auth, path) ==
  /\ server.listening
  /\ lastHttp' = [ip |-> ip, auth |-> auth, path |-> path,
                  res |-> Respond(config, fs, ip, auth, path),
                  body |-> RouteBody(config, metrics, ip, auth, path)]
  /\ UNCHANGED <<setup, config, now, ticks, faults, metrics, logBuffer, ingested,
                 listeners, received, subscribed, calls, consoleOut, db, fs,
                 server, sessions>>

(***************************************************************************)
(* Realtime sessions (io.on("connection"), app.js:803-855).                *)
(***************************************************************************)
\* A variant of ConnectInbox that sends the oldest buffered entries.
ConnectInboxSendsOldest(cfg, buf) ==
  (IF cfg.enableMetrics
   THEN <<[type |-> "metricsUpdate", entries |-> <<>>]>> ELSE <<>>)
    \o (IF Len(buf) > 0
        THEN <<[type |-> "initialLogs",
                entries |-> SubSeq(buf, 1, Min(Len(buf), InitialLogsCount))]>>
        ELSE <<>>)

\* What a socket is sent when it connects (app.js:816-824).
ConnectInbox(cfg, buf) ==
  (IF cfg.enableMetrics
   THEN <<[type |-> "metricsUpdate", entries |-> <<>>]>> ELSE <<>>)
    \o (IF Len(buf) > 0
        THEN <<[type |-> "initialLogs", entries |-> LastN(buf, InitialLogsCount)]>>
        ELSE <<>>)

\* A client opens a socket; the connection handler looks at neither its
\* address nor its credentials.
Connect(s, ip, auth) ==
  /\ io
  /\ sessions[s].state = "none"
  /\ IF s = 1 THEN TRUE ELSE sessions[s - 1].state # "none"
  /\ sessions' = [sessions EXCEPT ![s] =
        [state |-> "open", ip |-> ip, auth |-> auth,
         inbox |-> ConnectInbox(config, logBuffer),
         joined |-> Len(ingested), left |-> 0]]
  /\ UNCHANGED <<setup, config, now, ticks, faults, metrics, logBuffer, ingested,
                 listeners, received, subscribed, calls, consoleOut, db, fs,
                 server, lastHttp>>

\* The socket is closed (app.js:826-828).
Disconnect(s) ==
  /\ sessions[s].state = "open"
  /\ sessions' = [sessions EXCEPT ![s].state = "closed",
                                  ![s].left = Len(ingested)]
  /\ UNCHANGED <<setup, config, now, ticks, faults, metrics, logBuffer, ingested,
                 listeners, received, subscribed, calls, consoleOut, db, fs,
                 server, lastHttp>>

(***************************************************************************)
(* startServer (app.js:623-866).                                           *)
(***************************************************************************)
\* The server after startServer: listening, with Socket.IO attached when
\* realtime is enabled (app.js:804-812).
Started(cfg) == [listening |-> TRUE, io |-> cfg.enableRealtime]

NotStarted == [listening |-> FALSE, io |-> FALSE]

StartServer ==
  /\ instance
  /\ ~server.listening
  /\ server' = Started(config)
  /\ UNCHANGED <<setup, config, now, ticks, faults, metrics, logBuffer, ingested,
                 listeners, received, subscribed, calls, consoleOut, db, fs,
                 sessions, lastHttp>>

(***************************************************************************)
(* The query engine (filterLogs, exportLogsAsCsv, app.js:869-998).         *)
(***************************************************************************)
\* The characters String.prototype.trim removes, as tokens.
Whitespace == {" ", "\n"}

\* String.prototype.trim.
RECURSIVE Trim(_)
Trim(s) ==
  IF s = <<>> THEN s
  ELSE IF Head(s) \in Whitespace THEN Trim(Tail(s))
  ELSE IF s[Len(s)] \in Whitespace THEN Trim(SubSeq(s, 1, Len(s) - 1))
  ELSE s

\* String.prototype.toLowerCase() on a token of the model.
ToLowerCase(s) ==
  CASE s = "INFO" -> "info"
    [] s = "ERROR" -> "error"
    [] s = "WARN" -> "warn"
    [] s = "DEBUG" -> "debug"
    [] s = "OOPS" -> "oops"
    [] s = "Error: boom" -> "error: boom"
    [] OTHER -> s

\* toLowerCase() on a string of several tokens.
LowerAll(s) == [i \in 1..Len(s) |-> ToLowerCase(s[i])]

\* String.prototype.includes: the term occurs as a run of the text.
Contains(text, term) ==
  \E i \in 1..(Len(text) - Len(term) + 1) :
    SubSeq(text, i, i + Len(term) - 1) = term

\* The content of a file: every appended line is followed by its newline
\* (app.js:605).
RECURSIVE Content(_)
Content(lines) ==
  IF lines = <<>> THEN <<>>
  ELSE Head(lines) \o <<"\n">> \o Content(Tail(lines))

\* The largest value of the seconds field of a timestamp of the model.
MaxSecond == (MaxTicks * MinuteMs) \div 1000

\* The tokens /[\d:]+/ matches: the seconds fields.
Numerals == {ToString(n) : n \in 0..MaxSecond}

\* The tokens /[\d-]+/ matches: the date, and the numerals.
DateTokens == {"2025-01-01"} \cup Numerals

\* line.match(/\[([\d-]+ [\d:]+)\]/) (app.js:885): the positions of the
\* opening bracket of the matches; the first one is the match.
TimestampMatches(line) ==
  {i \in 1..(Len(line) - 4) :
     /\ line[i] = "["
     /\ line[i + 1] \in DateTokens
     /\ line[i + 2] = " "
     /\ line[i + 3] \in Numerals
     /\ line[i + 4] = "]"}

\* line.match(/\]\s*\[([^\]]+)\]:/) (app.js:887) for a level name of one
\* token: the positions of the level name of the matches.
LevelMatches(line) ==
  {j \in 3..(Len(line) - 2) :
     /\ line[j - 1] = "["
     /\ line[j] # "]"
     /\ line[j + 1] = "]"
     /\ line[j + 2] = ":"
     /\ \E i \in 1..(j - 2) :
          /\ line[i] = "]"
          /\ \A k \in (i + 1)..(j - 2) : line[k] \in Whitespace}

\* line.indexOf("]:") (app.js:892): the positions of "]:" in the line.
BracketColons(line) ==
  {i \in 1..(Len(line) - 1) : line[i] = "]" /\ line[i + 1] = ":"}

\* The least element of a non-empty set of positions.
First(S) == CHOOSE i \in S : \A k \in S : i <= k

\* The entry a line of the file is parsed to (app.js:883-903).
ParseLine(line) ==
  LET tm == TimestampMatches(line)
      lm == LevelMatches(line)
      bc == BracketColons(line)
  IN [formattedMessage |-> line,
      timestamp |-> IF tm # {} THEN SubSeq(line, First(tm) + 1, First(tm) + 3)
                    ELSE <<>>,
      level |-> IF lm # {} THEN ToLowerCase(line[First(lm)]) ELSE "",
      message |-> IF tm # {} /\ lm # {}
                  THEN (IF bc # {}
                        THEN Trim(SubSeq(line, First(bc) + 2, Len(line)))
                        ELSE line)
                  ELSE line]

\* The entries read from the active file (app.js:876-909): the content is
\* split at the newlines, and the blank lines are dropped.
FileLogs(cfg, files) ==
  IF ActiveFile(cfg) \notin DOMAIN files THEN <<>>
  ELSE LET lines == Split(Content(files[ActiveFile(cfg)]), "\n")
           kept == SelectSeq(lines, LAMBDA l : Trim(l) # <<>>)
       IN [i \in 1..Len(kept) |-> ParseLine(kept[i])]

\* The key of app.js:914 and 918.
DedupKey(log) == log.timestamp \o <<"-">> \o log.message

\* The positions in the buffer of the entries that are merged
\* (app.js:912-923): those whose key no entry read from the file has.
NewLogs(fileLogs, buf) ==
  LET existingKeys == {DedupKey(fileLogs[i]) : i \in 1..Len(fileLogs)}
  IN SelectSeq([j \in 1..Len(buf) |-> j],
               LAMBDA j : DedupKey(buf[j]) \notin existingKeys)

\* new Date(text).getTime() for the texts of the model: the time of a
\* timestamp in seconds as a one-element sequence, and <<>> (NaN) for a text
\* that is no date.
DateOf(text) ==
  IF Len(text) = 3 /\ text[1] = "2025-01-01" /\ text[2] = " "
     /\ text[3] \in Numerals
  THEN <<CHOOSE n \in 0..MaxSecond : ToString(n) = text[3]>>
  ELSE <<>>

\* The comparator of app.js:926-930, dateB - dateA, as Array.prototype.sort
\* reads it: a NaN result counts as 0.
CompareLogs(a, b) ==
  LET dateA == DateOf(a.timestamp)
      dateB == DateOf(b.timestamp)
  IN IF dateA = <<>> \/ dateB = <<>> THEN 0 ELSE dateB[1] - dateA[1]

\* Array.prototype.sort of V8 for an array shorter than 64 elements: the
\* run at the start of the array is found (and reversed when it descends
\* strictly), and the elements after it are put in place by binary
\* insertion.
RunLength(arr) ==
  LET descending == CompareLogs(arr[2], arr[1]) < 0
      Goes(idx) == IF descending THEN CompareLogs(arr[idx], arr[idx - 1]) < 0
                   ELSE CompareLogs(arr[idx], arr[idx - 1]) >= 0
  IN CHOOSE r \in 2..Len(arr) :
       /\ \A idx \in 3..r : Goes(idx)
       /\ r < Len(arr) => ~Goes(r + 1)

Reverse(s) == [i \in 1..Len(s) |-> s[Len(s) + 1 - i]]

MakeRun(arr) ==
  LET r == RunLength(arr)
  IN IF CompareLogs(arr[2], arr[1]) < 0
     THEN Reverse(SubSeq(arr, 1, r)) \o SubSeq(arr, r + 1, Len(arr))
     ELSE arr

\* The position (counted from 0) at which the binary search of the
\* insertion puts the pivot, in the sorted part arr[1..right].
RECURSIVE InsertionPoint(_, _, _, _)
InsertionPoint(arr, pivot, left, right) ==
  IF left >= right THEN left
  ELSE LET mid == left + ((right - left) \div 2)
       IN IF CompareLogs(pivot, arr[mid + 1]) < 0
          THEN InsertionPoint(arr, pivot, left, mid)
          ELSE InsertionPoint(arr, pivot, mid + 1, right)

\* The elements from position start (counted from 0) on are inserted.
RECURSIVE BinaryInsertionSort(_, _)
BinaryInsertionSort(arr, start) ==
  IF start >= Len(arr) THEN arr
  ELSE LET pivot == arr[start + 1]
           at == InsertionPoint(arr, pivot, 0, start)
           placed == SubSeq(arr, 1, at) \o <<pivot>>
                       \o SubSeq(arr, at + 1, start)
                       \o SubSeq(arr, start + 2, Len(arr))
       IN BinaryInsertionSort(placed, start + 1)

\* logs.sort(...) (app.js:926-930).
SortLogs(logs) ==
  IF Len(logs) < 2 THEN logs
  ELSE BinaryInsertionSort(MakeRun(logs), RunLength(logs))

\* level.trim() === "" for a level filter, which is one token or "".
BlankLevel(level) == level = "" \/ level \in Whitespace

\* A variant of LevelPasses that compares the level as it is written.
LevelPassesCaseSensitive(log, level) ==
  BlankLevel(level) \/ log.level = level

\* The level filter (app.js:937-943).
LevelPasses(log, level) ==
  BlankLevel(level) \/ ToLowerCase(log.level) = ToLowerCase(level)

\* The search filter (app.js:945-952).
SearchPasses(log, search) ==
  \/ Trim(search) = <<>>
  \/ Contains(LowerAll(log.message \o <<" ">> \o log.formattedMessage),
              LowerAll(search))

\* The startDate filter (app.js:954-964): new Date does not throw, and a
\* comparison with an invalid date is false.
StartPasses(log, startDate) ==
  \/ Trim(startDate) = <<>>
  \/ LET logDate == DateOf(log.timestamp)
         filterDate == DateOf(startDate)
     IN ~(logDate = <<>> \/ (filterDate # <<>> /\ logDate[1] < filterDate[1]))

\* The endDate filter (app.js:966-976).
EndPasses(log, endDate) ==
  \/ Trim(endDate) = <<>>
  \/ LET logDate == DateOf(log.timestamp)
         filterDate == DateOf(endDate)
     IN ~(logDate = <<>> \/ (filterDate # <<>> /\ logDate[1] > filterDate[1]))

\* An element of the list filterLogs builds. ref tells which object it is:
\* the position in the buffer of the entry object that was pushed to the
\* list (app.js:922), 0 for an object made from a line (app.js:897).
Element(log, ref) ==
  [level |-> log.level, timestamp |-> log.timestamp, message |-> log.message,
   formattedMessage |-> log.formattedMessage, ref |-> ref]

\* The merged list before it is sorted (app.js:870-923).
MergedLogs(cfg, files, buf) ==
  LET fileLogs == FileLogs(cfg, files)
      newLogs == NewLogs(fileLogs, buf)
  IN [i \in 1..Len(fileLogs) |-> Element(fileLogs[i], 0)]
       \o [i \in 1..Len(newLogs) |-> Element(buf[newLogs[i]], newLogs[i])]

\* The filters of app.js:933-979.
Included(log, level, search, startDate, endDate) ==
  /\ LevelPasses(log, level)
  /\ SearchPasses(log, search)
  /\ StartPasses(log, startDate)
  /\ EndPasses(log, endDate)

\* filterLogs(level, search, startDate, endDate) (app.js:869-980).
filterLogs(cfg, files, buf, level, search, startDate, endDate) ==
  SelectSeq(SortLogs(MergedLogs(cfg, files, buf)),
            LAMBDA log : Included(log, level, search, startDate, endDate))

\* A variant of exportLogsAsCsv that keeps the newlines of a message.
RECURSIVE EscapeKeepsNewlines(_)
EscapeKeepsNewlines(message) ==
  IF message = <<>> THEN <<>>
  ELSE (IF Head(message) = "\"" THEN <<"\"", "\"">> ELSE <<Head(message)>>)
         \o EscapeKeepsNewlines(Tail(message))

\* message.replace(/"/g, '""').replace(/\n/g, " ") (app.js:989-991).
RECURSIVE Escape(_)
Escape(message) ==
  IF message = <<>> THEN <<>>
  ELSE (IF Head(message) = "\"" THEN <<"\"", "\"">>
        ELSE IF Head(message) = "\n" THEN <<" ">>
        ELSE <<Head(message)>>)
         \o Escape(Tail(message))

\* A level name as text: the name is one token, and "" is no token.
LevelText(level) == IF level = "" THEN <<>> ELSE <<level>>

\* The row of an entry (app.js:986-993).
CsvRow(log) ==
  <<"\"">> \o log.timestamp \o <<"\"", ",", "\"">> \o LevelText(log.level)
    \o <<"\"", ",", "\"">> \o Escape(log.message) \o <<"\"">>

\* exportLogsAsCsv(logs) (app.js:982-998).
exportLogsAsCsv(logs) ==
  <<"Timestamp", ",", "Level", ",", "Message", "\n">>
    \o Join([i \in 1..Len(logs) |-> CsvRow(logs[i])], "\n")

\* filterLogs is called, and its list is returned.
FilterLogs(level, search, startDate, endDate) ==
  /\ instance
  /\ query' = [op |-> "filterLogs",
               args |-> <<level, search, startDate, endDate>>,
               result |-> filterLogs(config, fs, logBuffer, level, search,
                                     startDate, endDate)]
  /\ UNCHANGED <<instance, dirs, methods, emitted, config, now, ticks, faults,
                 metrics, logBuffer, ingested, listeners, received, subscribed,
                 calls, consoleOut, db, fs, server, sessions, lastHttp>>

\* getMetrics() (app.js:1037): null (<<>>) when the metrics are disabled,
\* else a new object with the properties of metrics copied one level deep:
\* the numbers are copies, and the two objects logsByLevel and
\* logsPerMinute are the engine's own, named here by reference.
getMetrics(cfg, m) ==
  IF ~cfg.enableMetrics THEN <<>>
  ELSE <<[totalLogs |-> m.totalLogs,
          errorsPerMinute |-> m.errorsPerMinute,
          lastMinuteTimestamp |-> m.lastMinuteTimestamp,
          logsByLevel |-> "metrics.logsByLevel",
          logsPerMinute |-> "metrics.logsPerMinute"]>>

GetMetrics ==
  /\ instance
  /\ query' = [op |-> "getMetrics", args |-> <<>>,
               result |-> getMetrics(config, metrics)]
  /\ UNCHANGED <<instance, dirs, methods, emitted, config, now, ticks, faults,
                 metrics, logBuffer, ingested, listeners, received, subscribed,
                 calls, consoleOut, db, fs, server, sessions, lastHttp>>

\* The caller assigns to the message of an element of the list filterLogs
\* returned: an element that is an entry object of the buffer is changed
\* in the buffer too.
CallerWritesEntry(k) ==
  /\ query.op = "filterLogs"
  /\ k \in 1..Len(query.result)
  /\ query.result[k].message # <<"changed">>
  /\ query' = [query EXCEPT !.result[k].message = <<"changed">>]
  /\ logBuffer' = IF query.result[k].ref > 0
                  THEN [logBuffer EXCEPT ![query.result[k].ref].message =
                          <<"changed">>]
                  ELSE logBuffer
  /\ UNCHANGED <<instance, dirs, methods, emitted, config, now, ticks, faults,
                 metrics, ingested, listeners, received, subscribed, calls,
                 consoleOut, db, fs, server, sessions, lastHttp>>

\* The caller assigns to a count of the logsByLevel of the object
\* getMetrics returned, which is the engine's logsByLevel.
CallerWritesMetrics(level) ==
  /\ query.op = "getMetrics"
  /\ query.result # <<>>
  /\ query.result[1].logsByLevel = "metrics.logsByLevel"
  /\ CountOf(metrics.logsByLevel, level) # 0
  /\ metrics' = [metrics EXCEPT !.logsByLevel[level] = 0]
  /\ UNCHANGED <<instance, dirs, methods, emitted, query, config, now, ticks,
                 faults, logBuffer, ingested, listeners, received, subscribed,
                 calls, consoleOut, db, fs, server, sessions, lastHttp>>

\* exportLogsAsCsv is called with a list of entries.
ExportLogsAsCsv(logs) ==
  /\ instance
  /\ query' = [op |-> "exportLogsAsCsv", args |-> <<logs>>,
               result |-> exportLogsAsCsv(logs)]
  /\ UNCHANGED <<instance, dirs, methods, emitted, config, now, ticks, faults,
                 metrics, logBuffer, ingested, listeners, received, subscribed,
                 calls, consoleOut, db, fs, server, sessions, lastHttp>>

(***************************************************************************)
(* Construction (createLogManager, app.js:188-373 and 1007-1100).          *)
(***************************************************************************)
DefaultOptions ==
  [ levels |-> DefaultLevels, logLevel |-> "", consoleOnly |-> FALSE,
    fileOnly |-> FALSE, enableMetrics |-> FALSE, compressOldLogs |-> TRUE,
    emailAlerts |-> <<>>, dbConfig |-> FALSE, logFile |-> <<"logs", ".txt">>,
    logDir |-> "logs",
    startWebServer |-> FALSE, enableRealtime |-> TRUE, authEnabled |-> TRUE,
    bypassIpCheck |-> FALSE, allowedIPs |-> {"127.0.0.1", "::1"},
    username |-> <<"admin">>, password |-> <<"admin">> ]

NoRequest ==
  [ip |-> "", auth |-> <<>>, path |-> <<>>,
   res |-> [status |-> 0, challenge |-> FALSE, route |-> "none"],
   body |-> <<>>]

\* No reading operation was called yet.
NoQuery == [op |-> "none", args |-> <<>>, result |-> <<>>]

\* The state after createLogManager(o) returned.
Constructed(o) ==
  /\ ValidConfig(ResolveConfig(o))
  /\ instance = TRUE
  /\ dirs = IF ResolveConfig(o).consoleOnly THEN {} ELSE {ResolveConfig(o).logDir}
  /\ methods = generateLogMethods(ResolveConfig(o))
  /\ emitted = <<>>
  /\ config = ResolveConfig(o)
  /\ now = 0
  /\ ticks = 0
  /\ faults = FALSE
  /\ metrics = InitMetrics(0)
  /\ logBuffer = <<>>
  /\ ingested = <<>>
  /\ listeners = [e \in Events |-> <<>>]
  /\ received = [cb \in Callbacks |-> <<>>]
  /\ subscribed = {}
  /\ calls = [c \in Calls |-> IdleCall]
  /\ consoleOut = <<>>
  /\ db = <<>>
  /\ fs = <<>>
  /\ server = IF o.startWebServer THEN Started(ResolveConfig(o)) ELSE NotStarted
  /\ sessions = [s \in Sessions |-> NoSession]
  /\ lastHttp = NoRequest
  /\ query = NoQuery

\* The options of the engine runs: every combination of the sinks (console,
\* file, persistence) and the alert rules, and the default options with the
\* compression, the metrics or the default level changed, or with the web
\* server started.
EngineOptions ==
  { [DefaultOptions EXCEPT !.consoleOnly = m = "console", !.fileOnly = m = "file",
                           !.emailAlerts = al, !.dbConfig = d] :
      m \in {"both", "console", "file"}, al \in AlertRules, d \in BOOLEAN }
  \cup { [DefaultOptions EXCEPT !.compressOldLogs = FALSE],
         [DefaultOptions EXCEPT !.enableMetrics = TRUE],
         [DefaultOptions EXCEPT !.logLevel = "error"],
         [DefaultOptions EXCEPT !.startWebServer = TRUE],
         [DefaultOptions EXCEPT !.startWebServer = TRUE, !.enableMetrics = TRUE] }

Init == \E o \in EngineOptions : Constructed(o)

\* The steps of a log() call after its synchronous prefix.
Pipeline ==
  \/ \E c \in Calls : MailDone(c)
  \/ \E c \in Calls : AfterAlerts(c)
  \/ \E c \in Calls : StatDone(c)
  \/ \E c \in Calls : RenameDone(c)
  \/ \E c \in Calls : GzipDone(c)
  \/ \E c \in Calls : UnlinkDone(c)
  \/ \E c \in Calls : AppendDone(c)

\* The engine with every log() call awaited before the next one is issued.
Next ==
  \/ \E c \in Calls, a \in LogArgs : Awaited /\ LogSync(c, a.level, a.args)
  \/ Pipeline
  \/ Connect(1, "10.0.0.9", <<>>)
  \/ \E s \in Sessions : Disconnect(s)

Spec == Init /\ [][Next]_vars

\* The engine with log() calls issued without awaiting the previous ones.
NextConcurrent ==
  \/ \E c \in Calls, a \in LogArgs : LogSync(c, a.level, a.args)
  \/ Pipeline

SpecConcurrent == Init /\ [][NextConcurrent]_vars

(***************************************************************************)
(* The file sink on its own: sequential log() calls under the file-writing *)
(* configurations, with the wall clock advancing.                          *)
(***************************************************************************)
RotationOptions ==
  { [DefaultOptions EXCEPT !.logFile = f, !.compressOldLogs = z, !.fileOnly = fo] :
      f \in LogFileNames, z \in BOOLEAN, fo \in BOOLEAN }

InitRotation == \E o \in RotationOptions : Constructed(o)

NextRotation ==
  \/ \E c \in Calls, a \in LogArgs : Awaited /\ LogSync(c, a.level, a.args)
  \/ \E c \in Calls : AfterAlerts(c)
  \/ \E c \in Calls : StatDone(c)
  \/ \E c \in Calls : RenameDone(c)
  \/ \E c \in Calls : GzipDone(c)
  \/ \E c \in Calls : UnlinkDone(c)
  \/ \E c \in Calls : AppendDone(c)
  \/ \E d \in TickSteps : Tick(d)

SpecRotation == InitRotation /\ [][NextRotation]_vars

(***************************************************************************)
(* Rotation with compression: every rotation goes through compressLogFile. *)
(***************************************************************************)
CompressOptions ==
  { [DefaultOptions EXCEPT !.compressOldLogs = TRUE, !.fileOnly = fo] :
      fo \in BOOLEAN }

InitCompress == \E o \in CompressOptions : Constructed(o)

CompressArgs ==
  { [level |-> "info", args |-> <<"a">>],
    [level |-> "error", args |-> <<"b">>] }

NextCompress ==
  \/ \E c \in Calls, a \in CompressArgs : Awaited /\ LogSync(c, a.level, a.args)
  \/ \E c \in Calls : AfterAlerts(c)
  \/ \E c \in Calls : StatDone(c)
  \/ \E c \in Calls : RenameDone(c)
  \/ \E c \in Calls : GzipDone(c)
  \/ \E c \in Calls : UnlinkDone(c)
  \/ \E c \in Calls : AppendDone(c)
  \/ \E d \in TickSteps : Tick(d)

SpecCompress == InitCompress /\ [][NextCompress]_vars

(***************************************************************************)
(* The HTTP surface: requests against a logger that is being written to.   *)
(***************************************************************************)
GateOptions ==
  { [DefaultOptions EXCEPT !.startWebServer = sw, !.authEnabled = ae,
                           !.bypassIpCheck = by, !.enableMetrics = em] :
      sw \in BOOLEAN, ae \in BOOLEAN, by \in BOOLEAN, em \in BOOLEAN }

InitGate == \E o \in GateOptions : Constructed(o)

\* The log() calls that fill the buffer and the log file behind the server.
FileSink ==
  \/ \E c \in Calls : Awaited /\ LogSync(c, "info", <<"a">>)
  \/ \E c \in Calls : AfterAlerts(c)
  \/ \E c \in Calls : StatDone(c)
  \/ \E c \in Calls : RenameDone(c)
  \/ \E c \in Calls : GzipDone(c)
  \/ \E c \in Calls : UnlinkDone(c)
  \/ \E c \in Calls : AppendDone(c)

\* The request handler keeps no state between requests: a behaviour makes
\* one request, at any point of the logger's life.
NextGate ==
  \/ StartServer
  \/ \E ip \in ClientIPs, auth \in AuthHeaders, path \in Paths :
       lastHttp = NoRequest /\ HttpRequest(ip, auth, path)
  \/ FileSink

SpecGate == InitGate /\ [][NextGate]_vars

(***************************************************************************)
(* The realtime channel: sockets opened from any address, with any header. *)
(***************************************************************************)
NextRealtime ==
  \/ StartServer
  \/ \E ip \in ClientIPs, auth \in AuthHeaders : Connect(1, ip, auth)
  \/ \E s \in Sessions : Disconnect(s)
  \/ FileSink

SpecRealtime == InitGate /\ [][NextRealtime]_vars

(***************************************************************************)
(* The event bus: subscriptions and log() calls of a console-only logger.  *)
(***************************************************************************)
BusOptions ==
  { [DefaultOptions EXCEPT !.consoleOnly = TRUE, !.dbConfig = d] : d \in BOOLEAN }

InitBus == \E o \in BusOptions : Constructed(o)

NextBus ==
  \/ \E e \in Events, cb \in Callbacks : On(e, cb)
  \/ \E e \in Events, cb \in Callbacks : Off(e, cb)
  \/ \E e \in Events, cb \in Callbacks : RemoveHandle(e, cb)
  \/ \E c \in Calls, a \in LogArgs : Awaited /\ LogSync(c, a.level, a.args)
  \/ \E c \in Calls : AfterAlerts(c)

SpecBus == InitBus /\ [][NextBus]_vars

(***************************************************************************)
(* Construction with any combination of the output modes.                  *)
(***************************************************************************)
\* createLogManager threw at app.js:238: nothing after the validation ran
\* (no directory, no server: app.js:370-373 and 1008-1010), and the caller
\* holds no instance.
Thrown(o) ==
  /\ ~ValidConfig(ResolveConfig(o))
  /\ instance = FALSE
  /\ dirs = {}
  /\ methods = <<>>
  /\ emitted = <<>>
  /\ config = ResolveConfig(o)
  /\ now = 0
  /\ ticks = 0
  /\ faults = FALSE
  /\ metrics = InitMetrics(0)
  /\ logBuffer = <<>>
  /\ ingested = <<>>
  /\ listeners = [e \in Events |-> <<>>]
  /\ received = [cb \in Callbacks |-> <<>>]
  /\ subscribed = {}
  /\ calls = [c \in Calls |-> IdleCall]
  /\ consoleOut = <<>>
  /\ db = <<>>
  /\ fs = <<>>
  /\ server = NotStarted
  /\ sessions = [s \in Sessions |-> NoSession]
  /\ lastHttp = NoRequest
  /\ query = NoQuery

ConstructOptions ==
  { [DefaultOptions EXCEPT !.consoleOnly = co, !.fileOnly = fo,
                           !.startWebServer = sw] :
      co \in BOOLEAN, fo \in BOOLEAN, sw \in BOOLEAN }

InitConstruct == \E o \in ConstructOptions : Constructed(o) \/ Thrown(o)

NextConstruct ==
  \/ StartServer
  \/ \E c \in Calls, a \in LogArgs : Awaited /\ LogSync(c, a.level, a.args)
  \/ \E c \in Calls : AfterAlerts(c)
  \/ \E c \in Calls : StatDone(c)
  \/ \E c \in Calls : RenameDone(c)
  \/ \E c \in Calls : GzipDone(c)
  \/ \E c \in Calls : UnlinkDone(c)
  \/ \E c \in Calls : AppendDone(c)
  \/ \E e \in Events, cb \in {"cb"} : On(e, cb)

SpecConstruct == InitConstruct /\ [][NextConstruct]_vars

(***************************************************************************)
(* The alert rules: loggers with one or two rules, in every output mode.   *)
(***************************************************************************)
AlertOptions ==
  { [DefaultOptions EXCEPT !.consoleOnly = m = "console", !.fileOnly = m = "file",
                           !.emailAlerts = al] :
      m \in {"both", "console", "file"},
      al \in { <<[level |-> "error", pattern |-> ""]>>,
               <<[level |-> "error", pattern |-> ""],
                 [level |-> "error", pattern |-> "b"]>>,
               <<[level |-> "error", pattern |-> "zz"],
                 [level |-> "info", pattern |-> "a"]>> } }

InitAlerts == \E o \in AlertOptions : Constructed(o)

NextAlerts ==
  \/ \E c \in Calls, a \in LogArgs : Awaited /\ LogSync(c, a.level, a.args)
  \/ \E c \in Calls : MailDone(c)
  \/ \E c \in Calls : AfterAlerts(c)
  \/ \E c \in Calls : StatDone(c)
  \/ \E c \in Calls : RenameDone(c)
  \/ \E c \in Calls : GzipDone(c)
  \/ \E c \in Calls : UnlinkDone(c)
  \/ \E c \in Calls : AppendDone(c)

SpecAlerts == InitAlerts /\ [][NextAlerts]_vars

(***************************************************************************)
(* Configuration updates: levels, output mode and log directory change     *)
(* between and during log() calls made through log() or an accessor.       *)
(***************************************************************************)
\* The number of updateConfig calls that change the level list.
MaxUpdates == 2

ConfigOptions ==
  { [DefaultOptions EXCEPT !.consoleOnly = co, !.compressOldLogs = FALSE] :
      co \in BOOLEAN }

InitConfig == \E o \in ConfigOptions : Constructed(o)

\* The arguments of updateConfig.
NewConfigs ==
  { [levels |-> <<"info", "error", "critical">>],
    [levels |-> <<"error">>],
    [consoleOnly |-> FALSE],
    [logDir |-> "other"] }

\* The accessors a caller tries, and the values passed to them.
AccessorNames == {"info", "critical"}

NextConfig ==
  \/ \E nc \in NewConfigs : Len(emitted) < MaxUpdates /\ UpdateConfig(nc)
  \/ \E c \in Calls : Awaited /\ LogSync(c, "oops", <<"a">>)
  \/ \E c \in Calls, name \in AccessorNames :
       Awaited /\ CallAccessor(c, name, <<"a">>)
  \/ \E c \in Calls : AfterAlerts(c)
  \/ \E c \in Calls : StatDone(c)
  \/ \E c \in Calls : RenameDone(c)
  \/ \E c \in Calls : AppendDone(c)

SpecConfig == InitConfig /\ [][NextConfig]_vars

(***************************************************************************)
(* The realtime fan-out: sessions that come and go while a console-only    *)
(* logger is written to, with the server started or not.                   *)
(***************************************************************************)
SessionOptions ==
  { [DefaultOptions EXCEPT !.consoleOnly = TRUE, !.startWebServer = o[1],
                           !.enableRealtime = o[2], !.enableMetrics = o[3]] :
      o \in { <<TRUE, TRUE, TRUE>>, <<TRUE, TRUE, FALSE>>,
              <<FALSE, TRUE, TRUE>>, <<TRUE, FALSE, TRUE>> } }

InitSessions == \E o \in SessionOptions : Constructed(o)

NextSessions ==
  \/ StartServer
  \/ \E s \in Sessions : Connect(s, "127.0.0.1", <<>>)
  \/ \E s \in Sessions : Disconnect(s)
  \/ \E c \in Calls, a \in LogArgs :
       Awaited /\ a.level \in Range(config.levels) /\ LogSync(c, a.level, a.args)
  \/ \E c \in Calls : AfterAlerts(c)

SpecSessions == InitSessions /\ [][NextSessions]_vars

(***************************************************************************)
(* The query engine: a logger that writes its file is asked for its        *)
(* entries, at any point of its life and with any filters.                 *)
(***************************************************************************)
QueryOptions ==
  { [DefaultOptions EXCEPT !.consoleOnly = co, !.compressOldLogs = FALSE,
                           !.enableMetrics = TRUE] : co \in BOOLEAN }

InitQuery == \E o \in QueryOptions : Constructed(o)

\* The log() calls: two levels, a plain message and an Error.
QueryArgs ==
  { [level |-> "info", args |-> <<"a">>],
    [level |-> "error", args |-> <<"b">>],
    [level |-> "error", args |-> <<"Error: boom">>] }

\* The filters: none, a level in either case, a word, and a bound that is
\* a date or is not one.
QueryLevels == {"", "error", "ERROR"}

QuerySearches == {<<>>, <<"a">>}

QueryDates == {<<"garbage">>, <<"2025-01-01", " ", "60">>}

\* The arguments of filterLogs: a level and a word, or a level and one of
\* the two bounds.
QueryFilters ==
  {<<l, w, <<>>, <<>>>> : l \in QueryLevels, w \in QuerySearches}
    \cup {<<l, <<>>, d, <<>>>> : l \in {"", "error"}, d \in QueryDates}
    \cup {<<l, <<>>, <<>>, d>> : l \in {"", "error"}, d \in QueryDates}

\* The caller awaits its log() calls, and then makes one call of a reading
\* operation.
NextQuery ==
  \/ \E c \in Calls, a \in QueryArgs :
       Awaited /\ query = NoQuery /\ LogSync(c, a.level, a.args)
  \/ \E c \in Calls : AfterAlerts(c)
  \/ \E c \in Calls : StatDone(c)
  \/ \E c \in Calls : RenameDone(c)
  \/ \E c \in Calls : AppendDone(c)
  \/ \E d \in TickSteps : query = NoQuery /\ Tick(d)
  \/ \E f \in QueryFilters :
       Awaited /\ query = NoQuery /\ FilterLogs(f[1], f[2], f[3], f[4])
  \/ Awaited /\ query = NoQuery /\ GetMetrics
  \/ \E k \in 1..Len(query.result) :
       query.args = <<"", <<>>, <<>>, <<>>>> /\ CallerWritesEntry(k)
  \/ \E level \in Range(DefaultLevels) : CallerWritesMetrics(level)

SpecQuery == InitQuery /\ [][NextQuery]_vars

(***************************************************************************)
(* The level filter: a logger that writes its file is asked for the        *)
(* entries of one level.                                                   *)
(***************************************************************************)
LevelOptions ==
  { [DefaultOptions EXCEPT !.consoleOnly = FALSE, !.compressOldLogs = FALSE] }

InitLevels == \E o \in LevelOptions : Constructed(o)

\* The log() calls: a plain message of one level and an Error of the other.
LevelArgs ==
  { [level |-> "info", args |-> <<"a">>],
    [level |-> "error", args |-> <<"Error: boom">>] }

\* The arguments of filterLogs that name a level: alone and in the other
\* case, and with each of the other filters.
LevelFilters ==
  { <<"ERROR", <<>>, <<>>, <<>>>>,
    <<"error", <<"a">>, <<>>, <<>>>>,
    <<"error", <<>>, <<"2025-01-01", " ", "60">>, <<>>>>,
    <<"info", <<>>, <<>>, <<"2025-01-01", " ", "60">>>> }

NextLevels ==
  \/ \E c \in Calls, a \in LevelArgs :
       Awaited /\ query = NoQuery /\ LogSync(c, a.level, a.args)
  \/ \E c \in Calls : AfterAlerts(c)
  \/ \E c \in Calls : StatDone(c)
  \/ \E c \in Calls : RenameDone(c)
  \/ \E c \in Calls : AppendDone(c)
  \/ query = NoQuery /\ Tick(MinuteMs)
  \/ \E f \in LevelFilters :
       Awaited /\ query = NoQuery /\ FilterLogs(f[1], f[2], f[3], f[4])

SpecLevels == InitLevels /\ [][NextLevels]_vars

(***************************************************************************)
(* The CSV export on its own: exportLogsAsCsv is given any list of entries. *)
(***************************************************************************)
\* The length of the lists passed to exportLogsAsCsv.
MaxCsvRows == 3

\* The entries of the lists: a plain message, a message with double
\* quotes, and a message with newlines (that of an Error).
CsvEntries ==
  { MakeEntry(ResolveConfig(DefaultOptions), a.level, a.args, 0) :
      a \in { [level |-> "info", args |-> <<"a">>],
              [level |-> "info", args |-> <<"say \"hi\"">>],
              [level |-> "error", args |-> <<"b">>],
              [level |-> "error", args |-> <<"Error: boom">>],
              [level |-> "error", args |-> <<"b", "Error: boom">>] } }

CsvInputs ==
  UNION {[1..n -> CsvEntries] : n \in 0..MaxCsvRows}

InitCsv == Constructed(DefaultOptions)

NextCsv == \E logs \in CsvInputs : ExportLogsAsCsv(logs)

SpecCsv == InitCsv /\ [][NextCsv]_vars

(***************************************************************************)
(* The minute samples: a console-only logger with the metrics enabled,     *)
(* called now and then while the wall clock advances.                      *)
(***************************************************************************)
MetricsOptions ==
  { [DefaultOptions EXCEPT !.consoleOnly = TRUE, !.enableMetrics = TRUE] }

InitMetricsRun == \E o \in MetricsOptions : Constructed(o)

\* The clock advances by half a second, by just under a minute, or by a
\* minute.
MinuteTickSteps == {500, MinuteMs - 500, MinuteMs}

NextMetrics ==
  \/ \E c \in Calls, a \in LogArgs : Awaited /\ LogSync(c, a.level, a.args)
  \/ \E c \in Calls : AfterAlerts(c)
  \/ \E d \in MinuteTickSteps : Tick(d)

SpecMetrics == InitMetricsRun /\ [][NextMetrics]_vars

(***************************************************************************)
(* The per-minute samples of a logger that has been running for an hour:   *)
(* it was written to once a minute, and is written to further.             *)
(***************************************************************************)
SampleOptions ==
  { [DefaultOptions EXCEPT !.consoleOnly = TRUE, !.enableMetrics = TRUE] }

\* The number of log() calls made before the behaviour starts, one a minute.
EarlierMinutes == {MaxMinuteSamples - 1, MaxMinuteSamples}

\* The entry of the i-th earlier call.
EarlierEntry(cfg, i) == MakeEntry(cfg, "info", <<"a">>, i * MinuteMs)

\* The metrics after the first k earlier calls (k at most 60): every call
\* found that a minute had passed, counted itself and took a sample.
MetricsAfter(cfg, k) ==
  IF k = 0 THEN InitMetrics(0)
  ELSE [totalLogs |-> k,
        logsByLevel |-> [l \in {"info"} |-> k],
        logsPerMinute |-> [i \in 1..k |->
                             [timestamp |-> (i - 1) * MinuteMs, count |-> i]],
        errorsPerMinute |-> 0,
        lastMinuteTimestamp |-> k * MinuteMs]

\* The ring buffer after the first k earlier calls: the last of them.
BufferAfter(cfg, k) ==
  LET n == Min(k, MAX_BUFFER_SIZE)
  IN [i \in 1..n |-> EarlierEntry(cfg, k - n + i)]

\* The state of a logger constructed with o after k earlier calls, each
\* awaited and a minute after the one before.
Warmed(o, k) ==
  LET cfg == ResolveConfig(o)
  IN /\ ValidConfig(cfg)
     /\ instance = TRUE
     /\ dirs = IF cfg.consoleOnly THEN {} ELSE {cfg.logDir}
     /\ methods = generateLogMethods(cfg)
     /\ emitted = <<>>
     /\ config = cfg
     /\ now = k * MinuteMs
     /\ ticks = 0
     /\ faults = FALSE
     /\ metrics = MetricsAfter(cfg, k)
     /\ logBuffer = BufferAfter(cfg, k)
     /\ ingested = <<>>
     /\ listeners = [e \in Events |-> <<>>]
     /\ received = [cb \in Callbacks |-> <<>>]
     /\ subscribed = {}
     /\ calls = [c \in Calls |-> IdleCall]
     /\ consoleOut = <<>>
     /\ db = <<>>
     /\ fs = <<>>
     /\ server = NotStarted
     /\ sessions = [s \in Sessions |-> NoSession]
     /\ lastHttp = NoRequest
     /\ query = NoQuery

InitSamples == \E o \in SampleOptions, k \in EarlierMinutes : Warmed(o, k)

NextSamples ==
  \/ \E c \in Calls, a \in CompressArgs : Awaited /\ LogSync(c, a.level, a.args)
  \/ \E c \in Calls : AfterAlerts(c)
  \/ \E d \in TickSteps : Tick(d)

SpecSamples == InitSamples /\ [][NextSamples]_vars

(***************************************************************************)
(* The file sink under concurrent log() calls: the caller issues calls     *)
(* without awaiting the earlier ones, all within one second.               *)
(***************************************************************************)
RaceOptions ==
  { [DefaultOptions EXCEPT !.compressOldLogs = FALSE, !.fileOnly = TRUE] }

InitRace == \E o \in RaceOptions : Constructed(o)

\* The log() calls: a short line and a long one.
RaceArgs ==
  { [level |-> "info", args |-> <<"a">>],
    [level |-> "oops", args |-> <<"a">>] }

NextRace ==
  \/ \E c \in Calls, a \in RaceArgs : LogSync(c, a.level, a.args)
  \/ \E c \in Calls : AfterAlerts(c)
  \/ \E c \in Calls : StatDone(c)
  \/ \E c \in Calls : RenameDone(c)
  \/ \E c \in Calls : AppendDone(c)

SpecRace == InitRace /\ [][NextRace]_vars

(***************************************************************************)
(* Concurrent log() calls of which some match an alert rule: the mail of   *)
(* a matching call is awaited before its file write.                       *)
(***************************************************************************)
OrderOptions ==
  { [DefaultOptions EXCEPT !.compressOldLogs = FALSE, !.fileOnly = TRUE,
                           !.emailAlerts = al] :
      al \in {<<>>, <<[level |-> "error", pattern |-> ""]>>} }

InitOrder == \E o \in OrderOptions : Constructed(o)

OrderArgs ==
  { [level |-> "info", args |-> <<"a">>],
    [level |-> "error", args |-> <<"b">>] }

NextOrder ==
  \/ \E c \in Calls, a \in OrderArgs : LogSync(c, a.level, a.args)
  \/ \E c \in Calls : MailDone(c)
  \/ \E c \in Calls : AfterAlerts(c)
  \/ \E c \in Calls : StatDone(c)
  \/ \E c \in Calls : RenameDone(c)
  \/ \E c \in Calls : AppendDone(c)

SpecOrder == InitOrder /\ [][NextOrder]_vars

(***************************************************************************)
(* Concurrent log() calls with a realtime session: the calls are issued    *)
(* while earlier ones wait for their mail or their file operations.        *)
(***************************************************************************)
InterleaveOptions ==
  { [DefaultOptions EXCEPT !.compressOldLogs = FALSE, !.fileOnly = TRUE,
                           !.startWebServer = TRUE,
                           !.emailAlerts = <<[level |-> "error", pattern |-> ""]>>] }

InitInterleave == \E o \in InterleaveOptions : Constructed(o)

NextInterleave ==
  \/ \E c \in Calls, a \in OrderArgs : LogSync(c, a.level, a.args)
  \/ \E c \in Calls : MailDone(c)
  \/ \E c \in Calls : AfterAlerts(c)
  \/ \E c \in Calls : StatDone(c)
  \/ \E c \in Calls : RenameDone(c)
  \/ \E c \in Calls : AppendDone(c)
  \/ Connect(1, "127.0.0.1", <<>>)

SpecInterleave == InitInterleave /\ [][NextInterleave]_vars

(***************************************************************************)
(* Output-mode updates: updateConfig changes consoleOnly and fileOnly      *)
(* between the log() calls.                                                *)
(***************************************************************************)
ModeOptions ==
  { [DefaultOptions EXCEPT !.consoleOnly = m = "console", !.fileOnly = m = "file",
                           !.compressOldLogs = FALSE] :
      m \in {"both", "console", "file"} }

InitModes == \E o \in ModeOptions : Constructed(o)

\* The arguments of updateConfig.
ModeConfigs ==
  { [consoleOnly |-> TRUE], [consoleOnly |-> FALSE],
    [fileOnly |-> TRUE], [fileOnly |-> FALSE] }

NextModes ==
  \/ \E nc \in ModeConfigs : Awaited /\ UpdateConfig(nc)
  \/ \E c \in Calls, a \in LogArgs : Awaited /\ LogSync(c, a.level, a.args)
  \/ \E c \in Calls : AfterAlerts(c)
  \/ \E c \in Calls : StatDone(c)
  \/ \E c \in Calls : RenameDone(c)
  \/ \E c \in Calls : AppendDone(c)

SpecModes == InitModes /\ [][NextModes]_vars

(***************************************************************************)
(* The values of a log() call: strings, a number, undefined, null, a plain *)
(* object, an Error, and no value at all.                                  *)
(***************************************************************************)
ValueOptions == { [DefaultOptions EXCEPT !.consoleOnly = TRUE] }

InitValues == \E o \in ValueOptions : Constructed(o)

ValueLevels == {"info", "oops", "null"}

ValueLists ==
  { <<>>, <<"a">>, <<"42">>, <<"undefined">>, <<"null">>, <<"{a: 1}">>,
    <<"Error: boom">>, <<"a", "null">> }

NextValues ==
  \/ \E c \in Calls, level \in ValueLevels, args \in ValueLists :
       Awaited /\ LogSync(c, level, args)
  \/ \E c \in Calls, level \in ValueLevels, args \in ValueLists :
       Awaited /\ LogRejects(c, level, args)
  \/ \E c \in Calls : AfterAlerts(c)

SpecValues == InitValues /\ [][NextValues]_vars

(***************************************************************************)
(* The access gate under the configured passwords: one without and one     *)
(* with a colon.                                                           *)
(***************************************************************************)
PasswordOptions ==
  { [DefaultOptions EXCEPT !.startWebServer = TRUE, !.consoleOnly = TRUE,
                           !.password = p] :
      p \in {<<"admin">>, <<"admin", ":", "x">>} }

InitPasswords == \E o \in PasswordOptions : Constructed(o)

NextPasswords ==
  \E ip \in ClientIPs, auth \in AuthHeaders, path \in Paths :
    lastHttp = NoRequest /\ HttpRequest(ip, auth, path)

SpecPasswords == InitPasswords /\ [][NextPasswords]_vars

(***************************************************************************)
(* Termination of log(): concurrent calls with mail, persistence, rotation *)
(* and compression, next to a realtime session that connects.              *)
(* Every collaborator operation a call awaits ends: weak fairness on the   *)
(* step of each call.                                                      *)
(***************************************************************************)
LiveOptions ==
  { [DefaultOptions EXCEPT !.compressOldLogs = TRUE, !.fileOnly = TRUE,
                           !.startWebServer = TRUE, !.dbConfig = TRUE,
                           !.emailAlerts = <<[level |-> "error", pattern |-> ""]>>] }

InitLive == \E o \in LiveOptions : Constructed(o)

\* The operation call c awaits ends, with success or with failure.
PipelineStep(c) ==
  \/ MailDone(c)
  \/ AfterAlerts(c)
  \/ StatDone(c)
  \/ RenameDone(c)
  \/ GzipDone(c)
  \/ UnlinkDone(c)
  \/ AppendDone(c)

\* A call that matches the alert rule, and one whose value cannot be
\* converted.
LiveArgs ==
  { [level |-> "error", args |-> <<"b">>],
    [level |-> "info", args |-> <<"null">>] }

NextLive ==
  \/ \E c \in Calls, a \in LiveArgs : LogSync(c, a.level, a.args)
  \/ \E c \in Calls, a \in LiveArgs : LogRejects(c, a.level, a.args)
  \/ \E c \in Calls : PipelineStep(c)
  \/ Connect(1, "127.0.0.1", <<>>)

SpecLive ==
  /\ InitLive
  /\ [][NextLive]_vars
  /\ \A c \in Calls : WF_vars(PipelineStep(c))

(***************************************************************************)
(* Properties.                                                             *)
(***************************************************************************)
\* The calls issued so far; they are numbered in the order of issue.
Issued == {c \in Calls : calls[c].pc # "idle"}

\* C1: after N log() calls the ring buffer holds exactly min(N, capacity)
\* entries, they are the entries of the N most recent calls in the order of
\* the calls (oldest first), and its length never exceeds the capacity.
C1_RingBufferHoldsMostRecent ==
  LET n == Cardinality(Issued)
      k == Len(logBuffer)
  IN /\ k <= MAX_BUFFER_SIZE
     /\ k = Min(n, MAX_BUFFER_SIZE)
     /\ \A i \in 1..k : logBuffer[i] = calls[n - k + i].entry
     /\ logBuffer = LastN(ingested, MAX_BUFFER_SIZE)

\* C1, its case: more calls than the capacity were made, so the oldest
\* entries were evicted.
C1_Witness ==
  /\ Cardinality(Issued) > MAX_BUFFER_SIZE
  /\ Len(logBuffer) = MAX_BUFFER_SIZE
  /\ logBuffer[1] # calls[1].entry

\* The place of a step in the order of the ingestion pipeline.
StepRank(step) ==
  CASE step = "metrics" -> 1
    [] step = "buffer" -> 2
    [] step = "emit" -> 3
    [] step = "realtime" -> 4
    [] step = "alerts" -> 5
    [] step = "persist" -> 6
    [] step = "console" -> 7
    [] step = "file" -> 8

\* The steps a call that completes goes through under a configuration.
StepsDue(cfg) ==
  {1, 2, 3, 4, 5} \cup (IF cfg.dbConfig THEN {6} ELSE {})
    \cup (IF ~cfg.fileOnly THEN {7} ELSE {})
    \cup (IF ~cfg.consoleOnly THEN {8} ELSE {})

\* C2: the side effects of one log() call happen in the order metrics,
\* buffer, "log" event, realtime fan-out, alert rules, persistence write,
\* console (unless file-only), rotation check and file append (unless
\* console-only), each at most once, and the entry is returned only after
\* all of those the configuration asks for, the file step last.
C2_SideEffectsInOrder ==
  \A c \in Calls :
    LET st == calls[c].steps
        ranks == {StepRank(st[i]) : i \in 1..Len(st)}
    IN /\ \A i, j \in 1..Len(st) : i < j => StepRank(st[i]) < StepRank(st[j])
       /\ \A r \in ranks : \A q \in StepsDue(config) : q < r => q \in ranks
       /\ 2 \in ranks => calls[c].entry \in Range(ingested)
       /\ 6 \in ranks => calls[c].entry \in Range(db)
       /\ 7 \in ranks =>
            \E i \in 1..Len(consoleOut) :
              consoleOut[i].line = calls[c].entry.formattedMessage
       /\ calls[c].pc \in {"stat", "rename", "gzip", "unlink", "append"}
            => ranks = StepsDue(config)
       /\ calls[c].pc = "returned" => ranks = StepsDue(config)

\* C2, its case: a call has returned after every one of the eight steps.
C2_Witness ==
  \E c \in Calls :
    /\ calls[c].pc = "returned"
    /\ Len(calls[c].steps) = 8
    /\ ActiveFile(config) \in DOMAIN fs
    /\ calls[c].entry.formattedMessage \in Range(fs[ActiveFile(config)])

Archives == DOMAIN fs \ {ActiveFile(config)}

\* C5: in file-writing mode a log() call rotates (renames the active file to
\* an archive) if and only if the active file exists and its size at the
\* check is at least the threshold; after the rotation the active file is
\* gone until the append of the same call recreates it, and from then on it
\* holds only lines of entries logged from that call on.
C5_RotationIffThresholdAndFreshFile ==
  \A c \in Calls :
    LET active == ActiveFile(config)
        since == {d \in Calls : d >= c /\ calls[d].pc = "returned"}
    IN /\ calls[c].pc = "rename"
            => active \in DOMAIN fs /\ Size(fs[active]) >= MAX_FILE_SIZE
       /\ (calls[c].pc = "append" /\ ~calls[c].rotated)
            => active \notin DOMAIN fs \/ Size(fs[active]) < MAX_FILE_SIZE
       /\ (calls[c].rotated /\ ~faults /\ calls[c].pc = "append")
            => active \notin DOMAIN fs
       /\ (calls[c].rotated /\ ~faults /\ calls[c].pc = "returned")
            => /\ Awaited => active \in DOMAIN fs
               /\ active \in DOMAIN fs => Len(fs[active]) <= Cardinality(since)

\* C6: with every log() call awaited before the next, every rotation leaves
\* one new archive in the log directory, distinct from the earlier ones:
\* after k rotations the directory holds k archives.
C6_OneArchivePerRotation ==
  (Awaited /\ ~faults)
    => Cardinality(Archives) = Cardinality({c \in Calls : calls[c].rotated})

\* C7: with auth enabled and no IP bypass, a request from an address that is
\* not a member of the allow-list is answered 403, with no challenge and no
\* route, whatever its Authorization header.
C7_ForeignAddressIs403 ==
  (/\ lastHttp # NoRequest
   /\ config.authEnabled
   /\ ~config.bypassIpCheck
   /\ lastHttp.ip \notin config.allowedIPs)
    => lastHttp.res = [status |-> 403, challenge |-> FALSE, route |-> "none"]

\* C7, its case: a request with the valid credentials from an address
\* outside the allow-list was refused with 403.
C7_Witness ==
  /\ config.authEnabled
  /\ ~config.bypassIpCheck
  /\ lastHttp.ip = "10.0.0.9"
  /\ lastHttp.auth = <<"Basic", " ", "YWRtaW46YWRtaW4=">>
  /\ lastHttp.path = <<"/logs">>
  /\ lastHttp.res.status = 403

\* C8: with auth enabled, a request that passes the IP check and whose
\* Authorization header is missing, is not of the form "Basic <blob>", or
\* decodes to a user (the text before the first colon) and a password (the
\* text after it) that are not both the configured ones, is answered 401
\* with a challenge and no route runs; and no request that failed the IP or
\* the credential check gets a route's content.
C8_BadCredentialsAre401 ==
  LET auth == lastHttp.auth
      wellFormed == Len(auth) = 3 /\ auth[1] = "Basic" /\ auth[2] = " "
      text == Base64Decode(<<auth[3]>>)
      colons == {i \in 1..Len(text) : text[i] = ":"}
      first == CHOOSE i \in colons : \A k \in colons : i <= k
      credentialsOk ==
        /\ wellFormed
        /\ colons # {}
        /\ SubSeq(text, 1, first - 1) = config.username
        /\ SubSeq(text, first + 1, Len(text)) = config.password
      ipOk == config.bypassIpCheck \/ lastHttp.ip \in config.allowedIPs
  IN (lastHttp # NoRequest /\ config.authEnabled)
       => /\ (ipOk /\ ~credentialsOk)
               => lastHttp.res = [status |-> 401, challenge |-> TRUE, route |-> "none"]
          /\ (~ipOk \/ ~credentialsOk) => lastHttp.res.route = "none"

\* C9: with auth enabled, a realtime session is sent log data (initialLogs,
\* newLog, logsData, metricsUpdate) only if its connection passes the IP and
\* credential checks of the gate.
C9_RealtimeBehindGate ==
  \A s \in Sessions :
    (/\ config.authEnabled
     /\ \E i \in 1..Len(sessions[s].inbox) :
          sessions[s].inbox[i].type
            \in {"initialLogs", "newLog", "logsData", "metricsUpdate"})
      => GateStatus(config, sessions[s].ip, sessions[s].auth) = 0

\* C10: a callback passed to on(event, callback), and not to off() or to the
\* handle's remove() since, is invoked with the new entry by every log()
\* call (which emits "log"); a callback that is not subscribed to "log" is
\* not invoked.
C10_SubscribedCallbackIsInvoked ==
  [][Len(ingested') = Len(ingested) + 1
       => \A cb \in Callbacks :
            received'[cb] =
              IF <<"log", cb>> \in subscribed
              THEN Append(received[cb], ingested'[Len(ingested')])
              ELSE received[cb]
    ]_vars


\* The number of ingested entries whose resolved level is l.
IngestedAt(l) == Cardinality({i \in 1..Len(ingested) : ingested[i].level = l})

\* C11: with metrics enabled, after N log() calls totalLogs is N and, for
\* every level, logsByLevel counts the ingested entries resolved to that
\* level; totalLogs never decreases.
C11_MetricsCountIngested ==
  [][/\ config.enableMetrics
          => /\ metrics'.totalLogs = Len(ingested')
             /\ \A l \in Range(config.levels) \cup DOMAIN metrics'.logsByLevel :
                  CountOf(metrics'.logsByLevel, l) = IngestedAt(l)'
     /\ metrics'.totalLogs >= metrics.totalLogs
    ]_vars

\* C11, its case: the levels info, error, info were logged with metrics
\* enabled.
C11_Witness ==
  /\ config.enableMetrics
  /\ Len(ingested) = 3
  /\ <<ingested[1].level, ingested[2].level, ingested[3].level>>
       = <<"info", "error", "info">>
  /\ metrics.totalLogs = 3
  /\ metrics.logsByLevel["info"] = 2
  /\ metrics.logsByLevel["error"] = 1


\* C12: createLogManager with both consoleOnly and fileOnly fails at
\* construction: there is no instance, no server is started, and no log()
\* call (or any other operation) is ever made on it.
C12_BothModesFailConstruction ==
  (config.consoleOnly /\ config.fileOnly)
    => /\ ~instance
       /\ server = NotStarted
       /\ \A c \in Calls : calls[c] = IdleCall
       /\ ingested = <<>> /\ logBuffer = <<>> /\ consoleOut = <<>> /\ fs = <<>>
       /\ subscribed = {}

\* C12, its case: the options had both modes, and asked for the web server.
C12_Witness ==
  /\ config.consoleOnly /\ config.fileOnly /\ config.startWebServer
  /\ ~instance
  /\ ~server.listening


\* The rules of the configuration that match an entry.
MatchingRules(cfg, entry) ==
  {j \in 1..Len(cfg.emailAlerts) :
     RuleMatches(cfg.emailAlerts[j], entry.level, entry.message)}

\* C13: a failure while sending the alert mail of a matching rule is caught
\* and not retried: the call makes one attempt per matching rule (the rules
\* after a failed one included), is never rejected, goes on to the console
\* and file emission of the entry, and returns.
C13_AlertFailureIsContained ==
  \A c \in Calls :
    LET call == calls[c]
        last == \A d \in Calls : d > c => calls[d].pc = "idle"
    IN /\ call.pc # "rejected"
       /\ call.pc = "mail" => Len(call.mails) < Cardinality(MatchingRules(config, call.entry))
       /\ call.pc \notin {"idle", "mail"}
            => Len(call.mails) = Cardinality(MatchingRules(config, call.entry))
       /\ call.pc = "returned"
            => /\ call.steps = SyncSteps(FALSE) \o SinkSteps(config)
               /\ ~config.fileOnly
                    => \E i \in 1..Len(consoleOut) :
                         consoleOut[i].line = call.entry.formattedMessage
               /\ (~config.consoleOnly /\ ~faults /\ last)
                    => /\ ActiveFile(config) \in DOMAIN fs
                       /\ call.entry.formattedMessage
                            = fs[ActiveFile(config)][Len(fs[ActiveFile(config)])]

\* C13, its case: the mail of the first of two matching rules failed, the
\* second rule was still tried, and the call returned with its line on the
\* console and in the file.
C13_Witness ==
  \E c \in Calls :
    /\ calls[c].pc = "returned"
    /\ Len(calls[c].mails) = 2
    /\ calls[c].mails[1] = "failed"
    /\ ~config.fileOnly /\ ~config.consoleOnly
    /\ ActiveFile(config) \in DOMAIN fs
    /\ calls[c].entry.formattedMessage \in Range(fs[ActiveFile(config)])


\* C14: when the stat, the rename or the append of a log() call fails, the
\* error is caught: the call returns its entry, which stays in the ring
\* buffer and counted in the metrics, and the calls after it go through
\* every step and leave their lines in the file.
C14_FileFailureIsContained ==
  \A c \in Calls :
    calls[c].failed # ""
      => LET n == Cardinality(Issued)
             later == {d \in Calls : d > c /\ calls[d].pc = "returned"}
         IN /\ calls[c].pc = "returned"
            /\ calls[c].entry = ingested[c]
            /\ n - c < MAX_BUFFER_SIZE
                 => calls[c].entry = logBuffer[Len(logBuffer) - (n - c)]
            /\ config.enableMetrics
                 => /\ metrics.totalLogs = Len(ingested)
                    /\ CountOf(metrics.logsByLevel, calls[c].entry.level)
                         = IngestedAt(calls[c].entry.level)
            /\ \A d \in later :
                 /\ calls[d].failed = ""
                 /\ calls[d].steps = SyncSteps(FALSE) \o SinkSteps(config)
                 /\ (d = n /\ ~config.consoleOnly)
                      => /\ ActiveFile(config) \in DOMAIN fs
                         /\ calls[d].entry.formattedMessage
                              = fs[ActiveFile(config)][Len(fs[ActiveFile(config)])]

\* C14, its case: the rename of a call failed, and the next call has
\* returned with its line in the file.
C14_Witness ==
  \E c, d \in Calls :
    /\ calls[c].failed = "rename"
    /\ d > c
    /\ calls[d].pc = "returned"
    /\ calls[c].entry \in Range(logBuffer)
    /\ calls[d].entry.formattedMessage \in Range(fs[ActiveFile(config)])


\* C15: the output mode selects the sinks of every log() call: with fileOnly
\* nothing is written to the console and the line is appended to the file;
\* with consoleOnly the line is written to the console and the call makes no
\* file-system operation; with neither, the line goes to both.
C15_ModeSelectsSinks ==
  LET past == {c \in Calls : calls[c].pc \notin {"idle", "mail", "alerted", "rejected"}}
      n == Cardinality(Issued)
      filed(c) == /\ ActiveFile(config) \in DOMAIN fs
                  /\ fs[ActiveFile(config)][Len(fs[ActiveFile(config)])]
                       = calls[c].entry.formattedMessage
  IN /\ config.fileOnly => consoleOut = <<>>
     /\ ~config.fileOnly
          => /\ Len(consoleOut) = Cardinality(past)
             /\ \A c \in past : consoleOut[c].line = calls[c].entry.formattedMessage
     /\ config.consoleOnly
          => /\ fs = <<>>
             /\ \A c \in Calls :
                  /\ calls[c].pc \notin {"stat", "rename", "gzip", "unlink", "append"}
                  /\ "file" \notin Range(calls[c].steps)
     /\ ~config.consoleOnly
          => \A c \in past :
               /\ "file" \in Range(calls[c].steps)
               /\ (calls[c].pc = "returned" /\ calls[c].failed = "" /\ c = n)
                    => filed(c)

\* C15, its case: a file-only logger has returned from a call, with the
\* line in the file and nothing on the console.
C15_Witness ==
  \E c \in Calls :
    /\ config.fileOnly
    /\ calls[c].pc = "returned"
    /\ consoleOut = <<>>
    /\ ActiveFile(config) \in DOMAIN fs
    /\ calls[c].entry.formattedMessage \in Range(fs[ActiveFile(config)])


\* C16: in file-writing mode every log() call that returns has appended its
\* line to the active file, the parent directories being created if
\* needed: also when the log directory does not exist at the time of the
\* call.
C16_ReturnedCallLeftItsLine ==
  [][\A c \in Calls :
       (/\ calls[c].pc # "returned"
        /\ calls'[c].pc = "returned"
        /\ "file" \in Range(calls'[c].steps)
        /\ ~faults')
         => /\ calls'[c].file \in DOMAIN fs'
            /\ fs'[calls'[c].file][Len(fs'[calls'[c].file])]
                 = calls'[c].entry.formattedMessage
    ]_vars


\* C17: an updateConfig that changes the level list leaves the instance
\* with an accessor for exactly every level of the new list and emits
\* exactly one configChanged carrying the old and the new levels; one that
\* leaves the level list as it was emits nothing and leaves the accessors.
C17_LevelChangeRegeneratesAccessors ==
  [][IF levelsChanged(config.levels, config'.levels)
     THEN /\ DOMAIN methods' = Range(config'.levels)
          /\ emitted' = Append(emitted, emitted'[Len(emitted')])
          /\ emitted'[Len(emitted')].oldLevels = config.levels
          /\ emitted'[Len(emitted')].newLevels = config'.levels
     ELSE /\ emitted' = emitted
          /\ methods' = methods
    ]_vars

\* C17, its case: the levels were changed to a list without "info", whose
\* accessor is gone, and one configChanged was emitted.
C17_Witness ==
  /\ Len(emitted) = 1
  /\ emitted[1].oldLevels = DefaultLevels
  /\ emitted[1].newLevels = <<"error">>
  /\ config.levels = <<"error">>
  /\ DOMAIN methods = {"error"}

\* C18: the instance has an accessor for every configured level, and a
\* call of the accessor of level L with some values is a call of log() with
\* L and those values: each has the effects and the result of the other.
C18_AccessorIsLogWithItsLevel ==
  [][/\ \A l \in Range(config'.levels) : l \in DOMAIN methods'
     /\ \A c \in Calls, l \in Range(config.levels),
           args \in {a.args : a \in LogArgs} :
          CallAccessor(c, l, args) <=> LogSync(c, l, args)
    ]_vars

\* C18, its case: the custom level "critical" was logged through its
\* accessor, and the call returned an entry of that level.
C18_Witness ==
  \E c \in Calls :
    /\ "critical" \in DOMAIN methods
    /\ calls[c].level = "critical"
    /\ calls[c].entry.level = "critical"
    /\ calls[c].pc = "returned"


\* The messages of a type in an inbox, in order.
OfType(inbox, type) ==
  LET Is(m) == m.type = type IN SelectSeq(inbox, Is)

C20_FanOutToOpenSessions ==
  [][/\ Len(ingested') = Len(ingested) + 1
          => sessions' =
               IF io /\ config.enableRealtime
               THEN [s \in Sessions |->
                       IF sessions[s].state = "open"
                       THEN [sessions[s] EXCEPT !.inbox =
                               Append(@, [type |-> "newLog",
                                          entries |-> <<ingested'[Len(ingested')]>>])]
                       ELSE sessions[s]]
               ELSE sessions
     /\ (\E c \in Calls : calls[c].pc # "returned" /\ calls'[c].pc = "returned")
          => sessions' =
               IF io /\ config.enableRealtime /\ config.enableMetrics
               THEN [s \in Sessions |->
                       IF sessions[s].state = "open"
                       THEN [sessions[s] EXCEPT !.inbox =
                               Append(@, [type |-> "metricsUpdate", entries |-> <<>>])]
                       ELSE sessions[s]]
               ELSE sessions
     /\ (~io \/ ~config.enableRealtime)
          => /\ sessions' = sessions
             /\ \A s \in Sessions : sessions[s].inbox = <<>>
    ]_vars

\* C20, its case: two sessions were open during a log() call of a logger
\* with metrics, and each got the newLog and then the metricsUpdate.
C20_Witness ==
  /\ config.enableMetrics
  /\ \A s \in Sessions :
       /\ sessions[s].state = "open"
       /\ sessions[s].joined = 0
       /\ Len(sessions[s].inbox) = 3
       /\ sessions[s].inbox[2].type = "newLog"
       /\ sessions[s].inbox[3].type = "metricsUpdate"
  /\ calls[1].pc = "returned"

\* The number of elements of a sequence that are equal to x.
Count(seq, x) == Cardinality({i \in 1..Len(seq) : seq[i] = x})

\* The step of a filterLogs call: its arguments and its list are in query'.
FilterLogsStep == query.op = "none" /\ query'.op = "filterLogs"

\* C21: a filterLogs call with a level filter returns only entries whose
\* level is the filter's, the case of the letters aside, and it returns
\* every entry of the merged view that has that level and passes the other
\* filters, as many times as the view has it.
C21_LevelFilterIsExact ==
  [][(FilterLogsStep /\ ~BlankLevel(query'.args[1]))
       => LET level == query'.args[1]
              R == query'.result
              M == MergedLogs(config, fs, logBuffer)
          IN /\ \A i \in 1..Len(R) :
                  ToLowerCase(R[i].level) = ToLowerCase(level)
             /\ \A k \in 1..Len(M) :
                  (/\ ToLowerCase(M[k].level) = ToLowerCase(level)
                   /\ SearchPasses(M[k], query'.args[2])
                   /\ StartPasses(M[k], query'.args[3])
                   /\ EndPasses(M[k], query'.args[4]))
                    => Count(R, M[k]) = Count(M, M[k])
    ]_vars

\* C21, its case: entries of both levels were ingested, and a call with the
\* filter "ERROR" returned entries read from the file and from the buffer.
C21_Witness ==
  /\ query.op = "filterLogs"
  /\ query.args[1] = "ERROR"
  /\ \E i \in 1..Len(ingested) : ingested[i].level = "info"
  /\ \E i, j \in 1..Len(query.result) :
       query.result[i].ref = 0 /\ query.result[j].ref > 0

\* An element of a filterLogs list as an entry.
Plain(e) ==
  [level |-> e.level, timestamp |-> e.timestamp, message |-> e.message,
   formattedMessage |-> e.formattedMessage]

\* The ingested entries (numbered as ingested, which is as the calls are
\* numbered) that are in the ring buffer.
InBuffer == {i \in 1..Len(ingested) : i > Len(ingested) - Len(logBuffer)}

\* The ingested entries whose line is in the active file: the line was
\* appended, and no later call has rotated the file.
InFile ==
  {i \in 1..Len(ingested) :
     /\ ~config.consoleOnly
     /\ calls[i].pc = "returned"
     /\ calls[i].failed = ""
     /\ \A j \in Calls : j > i => ~calls[j].rotated}

\* C22: a filterLogs call with no filters, made when every log() call has
\* returned and none has failed, returns each entry that is in the file or
\* in the buffer exactly once, and nothing else.
C22_EachEntryOnce ==
  [][(/\ FilterLogsStep
      /\ query'.args = <<"", <<>>, <<>>, <<>>>>
      /\ Awaited
      /\ \A c \in Calls : calls[c].failed = "")
       => LET R == query'.result
              P == InBuffer \cup InFile
          IN /\ Len(R) = Cardinality(P)
             /\ \A i \in P :
                  Cardinality({k \in 1..Len(R) : Plain(R[k]) = ingested[i]})
                    = Cardinality({j \in P : ingested[j] = ingested[i]})
    ]_vars

\* C23: in the list of a filterLogs call, of two elements whose timestamps
\* are dates the earlier one has the later or the same date.
C23_SortedNewestFirst ==
  [][FilterLogsStep
       => LET R == query'.result
          IN \A i, j \in 1..Len(R) :
               (/\ i < j
                /\ DateOf(R[i].timestamp) # <<>>
                /\ DateOf(R[j].timestamp) # <<>>)
                 => DateOf(R[i].timestamp)[1] >= DateOf(R[j].timestamp)[1]
    ]_vars

\* C24: a filterLogs call whose startDate (or endDate) is no date returns
\* what the same call with that bound empty returns.
C24_BadBoundIsSkipped ==
  [][FilterLogsStep
       => LET a == query'.args
              bad(d) == Trim(d) # <<>> /\ DateOf(d) = <<>>
          IN /\ bad(a[3]) => query'.result
                  = filterLogs(config, fs, logBuffer, a[1], a[2], <<>>, a[4])
             /\ bad(a[4]) => query'.result
                  = filterLogs(config, fs, logBuffer, a[1], a[2], a[3], <<>>)
    ]_vars

\* C25: a filterLogs call with a startDate or an endDate returns every
\* element of the merged view whose timestamp is no date and that passes
\* the level and the search filter.
C25_UndatedEntryIsKept ==
  [][(FilterLogsStep /\ (Trim(query'.args[3]) # <<>> \/ Trim(query'.args[4]) # <<>>))
       => LET R == query'.result
              M == MergedLogs(config, fs, logBuffer)
          IN \A k \in 1..Len(M) :
               (/\ DateOf(M[k].timestamp) = <<>>
                /\ LevelPasses(M[k], query'.args[1])
                /\ SearchPasses(M[k], query'.args[2]))
                 => Count(R, M[k]) = Count(M, M[k])
    ]_vars

\* A row of a CSV text read back: the fields between the commas, with the
\* quotes around a field removed and a doubled quote read as one.
RECURSIVE ReadFields(_, _, _, _)
ReadFields(rest, quoted, field, fields) ==
  IF rest = <<>> THEN Append(fields, field)
  ELSE IF quoted
  THEN (IF Head(rest) = "\"" /\ Len(rest) >= 2 /\ rest[2] = "\""
        THEN ReadFields(Tail(Tail(rest)), TRUE, Append(field, "\""), fields)
        ELSE IF Head(rest) = "\""
        THEN ReadFields(Tail(rest), FALSE, field, fields)
        ELSE ReadFields(Tail(rest), TRUE, Append(field, Head(rest)), fields))
  ELSE (IF Head(rest) = "\""
        THEN ReadFields(Tail(rest), TRUE, field, fields)
        ELSE IF Head(rest) = ","
        THEN ReadFields(Tail(rest), FALSE, <<>>, Append(fields, field))
        ELSE ReadFields(Tail(rest), FALSE, Append(field, Head(rest)), fields))

\* A message with every newline replaced by a space.
OnOneLine(message) ==
  [i \in 1..Len(message) |-> IF message[i] = "\n" THEN " " ELSE message[i]]

C27_MetricsRouteAndNotFound ==
  [][(lastHttp' # lastHttp
      /\ GateStatus(config, lastHttp'.ip, lastHttp'.auth) = 0)
       => LET path == lastHttp'.path
              known == \/ path \in {<<"/">>, <<"/logs">>, <<"/metrics">>, <<"/files">>}
                       \/ path[1] = "/download/"
          IN /\ path = <<"/metrics">>
                  => IF config.enableMetrics
                     THEN /\ lastHttp'.res.status = 200
                          /\ lastHttp'.body = <<metrics>>
                     ELSE /\ lastHttp'.res.status = 404
                          /\ lastHttp'.body = <<>>
             /\ ~known => lastHttp'.res.status = 404
    ]_vars

\* C27, its case: with the metrics disabled, a request with the right
\* credentials from an allowed address asked for /metrics and got 404.
C27_Witness ==
  /\ ~config.enableMetrics
  /\ config.authEnabled
  /\ lastHttp.ip = "127.0.0.1"
  /\ lastHttp.auth = <<"Basic", " ", "YWRtaW46YWRtaW4=">>
  /\ lastHttp.path = <<"/metrics">>
  /\ lastHttp.res.status = 404

\* C28: the ring buffer and the metrics change only in the step in which a
\* log() call is issued: no call of a reading operation, and nothing a
\* caller does with a value such an operation returned, changes them.
C28_OnlyIngestionWrites ==
  [][(logBuffer' # logBuffer \/ metrics' # metrics)
       => \E c \in Calls : calls[c].pc = "idle" /\ calls'[c].pc # "idle"
    ]_vars

\* C29: the archive of a rotation is deleted only in the step that follows
\* the completed compression, when the compressed file holds the gzip of
\* the archive; when the compression fails, the archive stays as it is and
\* the call goes on to its append, and once it has returned its line is
\* the last one of the active file.
C29_ArchiveOutlivesFailedGzip ==
  [][/\ \A a \in DOMAIN fs :
          a \notin DOMAIN fs'
            => \E c \in Calls :
                 \/ calls[c].pc = "rename" /\ a = calls[c].file
                 \/ /\ calls[c].pc = "unlink"
                    /\ a = calls[c].archive
                    /\ GzipName(a) \in DOMAIN fs
                    /\ fs[GzipName(a)] = Gzip(fs[a])
     /\ \A c \in Calls :
          LET archive == calls[c].archive
          IN /\ (calls[c].pc = "gzip" /\ calls'[c].pc \notin {"gzip", "unlink"})
                  => /\ calls'[c].pc = "append"
                     /\ archive \in DOMAIN fs
                          => archive \in DOMAIN fs' /\ fs'[archive] = fs[archive]
             /\ (/\ calls[c].pc = "append" /\ calls'[c].pc # "append"
                 /\ config.compressOldLogs
                 /\ calls[c].rotated
                 /\ archive \in DOMAIN fs)
                  => /\ calls'[c].pc = "returned"
                     /\ calls'[c].failed = ""
                     /\ archive \in DOMAIN fs'
                     /\ calls[c].file \in DOMAIN fs'
                     /\ fs'[calls[c].file][Len(fs'[calls[c].file])]
                          = calls[c].entry.formattedMessage
    ]_vars

\* C29, its case: the compression of a rotation failed; the call returned,
\* the uncompressed archive is in the directory and the call's line is in
\* the active file.
C29_Witness ==
  \E c \in Calls :
    /\ config.compressOldLogs
    /\ faults
    /\ calls[c].pc = "returned"
    /\ calls[c].rotated
    /\ calls[c].failed = ""
    /\ calls[c].archive # calls[c].file
    /\ calls[c].archive \in DOMAIN fs
    /\ GzipName(calls[c].archive) \notin DOMAIN fs
    /\ calls[c].file \in DOMAIN fs
    /\ fs[calls[c].file] = <<calls[c].entry.formattedMessage>>

\* C30: the minute samples change only in the step in which a log() call
\* is issued. Such a call appends one sample, of the previous
\* lastMinuteTimestamp and the total count, resets the errors of the
\* minute and sets lastMinuteTimestamp to the time of the call when
\* 60000 ms or more have passed since lastMinuteTimestamp, and it does
\* none of these otherwise; the clock advancing changes nothing.
C30_SamplesOnlyAtCalls ==
  [][LET issued == \E c \in Calls : calls[c].pc = "idle" /\ calls'[c].pc # "idle"
         level == ingested'[Len(ingested')].level
         errors == IF level = "error" THEN 1 ELSE 0
     IN /\ ~issued => /\ metrics'.logsPerMinute = metrics.logsPerMinute
                      /\ metrics'.lastMinuteTimestamp = metrics.lastMinuteTimestamp
                      /\ metrics'.errorsPerMinute = metrics.errorsPerMinute
        /\ (issued /\ config.enableMetrics)
             => IF now - metrics.lastMinuteTimestamp >= 60000
                THEN /\ metrics'.logsPerMinute
                          = Append(metrics.logsPerMinute,
                                   [timestamp |-> metrics.lastMinuteTimestamp,
                                    count |-> metrics.totalLogs + 1])
                     /\ metrics'.errorsPerMinute = errors
                     /\ metrics'.lastMinuteTimestamp = now
                ELSE /\ metrics'.logsPerMinute = metrics.logsPerMinute
                     /\ metrics'.errorsPerMinute = metrics.errorsPerMinute + errors
                     /\ metrics'.lastMinuteTimestamp = metrics.lastMinuteTimestamp
    ]_vars

\* C30, its case: two minutes passed with no call, and the call made then
\* added one sample, that of the minute that began at 0.
C30_Witness ==
  /\ now = 120000
  /\ metrics.totalLogs = 1
  /\ metrics.logsPerMinute = <<[timestamp |-> 0, count |-> 1]>>
  /\ metrics.lastMinuteTimestamp = 120000

\* The samples are in the order of their minutes.
Chronological(samples) ==
  \A i, j \in 1..Len(samples) :
    i < j => samples[i].timestamp < samples[j].timestamp

\* C31: logsPerMinute never holds more than 60 samples and is in the order
\* of the minutes; a sample taken when it holds 60 is appended at the end
\* and the oldest one is dropped, the others staying as they were.
C31_SamplesCappedOldestDropped ==
  /\ [](/\ Len(metrics.logsPerMinute) <= 60
        /\ Chronological(metrics.logsPerMinute))
  /\ [][(/\ metrics'.lastMinuteTimestamp # metrics.lastMinuteTimestamp
         /\ Len(metrics.logsPerMinute) = 60)
          => metrics'.logsPerMinute
               = Append(Tail(metrics.logsPerMinute),
                        [timestamp |-> metrics.lastMinuteTimestamp,
                         count |-> metrics.totalLogs + 1])
      ]_vars

\* C31, its case: the logger took 60 samples in its first hour, and a call
\* a minute later took the 61st: the sample of the first minute is gone.
C31_Witness ==
  /\ Len(ingested) = 1
  /\ metrics.totalLogs = 61
  /\ Len(metrics.logsPerMinute) = 60
  /\ metrics.logsPerMinute[1].timestamp = MinuteMs
  /\ metrics.logsPerMinute[60] = [timestamp |-> 60 * MinuteMs, count |-> 61]

\* The lines of all the files.
AllLines == UNION {Range(fs[n]) : n \in DOMAIN fs}

\* Call c passed the check of app.js:586-588 on a file that another call
\* has renamed since: the active file is gone, or is a new one that is
\* below the threshold.
Stale(c) ==
  /\ calls[c].pc = "rename"
  /\ \/ calls[c].file \notin DOMAIN fs
     \/ Size(fs[calls[c].file]) < MAX_FILE_SIZE

\* C32: a call can be about to rename a file that another call has renamed
\* after both passed the check on it; its rename then fails because the file
\* is gone, and the call returns without appending its line, or it renames
\* the file the other call has recreated, which is a second rotation of a
\* file that is below the threshold.
C32_RaceOutcomes ==
  [][\A c \in Calls :
       /\ Stale(c) => \E d \in Calls \ {c} : calls[d].rotated
       /\ (Stale(c) /\ calls'[c].pc # "rename" /\ faults' = faults)
            => IF calls[c].file \notin DOMAIN fs
               THEN /\ fs' = fs
                    /\ calls'[c].pc = "returned"
                    /\ ~calls'[c].rotated
               ELSE /\ fs' = Rename(fs, calls[c].file, calls[c].archive)
                    /\ calls'[c].rotated
    ]_vars

\* C32, its case: two calls were in flight, both passed the check on the
\* oversized file; one renamed it, the rename of the other failed and that
\* call returned with its line in no file, without any external fault.
C32_Witness ==
  \E c, d \in Calls :
    /\ c # d
    /\ ~faults
    /\ calls[d].rotated
    /\ calls[c].pc = "returned"
    /\ ~calls[c].rotated
    /\ calls[c].archive # <<>>
    /\ calls[c].entry.formattedMessage \notin AllLines

\* The number of lines equal to line in all the files together.
Copies(line) ==
  LET names == DOMAIN fs
      RECURSIVE Sum(_)
      Sum(S) == IF S = {} THEN 0
                ELSE LET n == CHOOSE x \in S : TRUE
                     IN Count(fs[n], line) + Sum(S \ {n})
  IN Sum(names)

\* C33: as long as no file-system operation has failed for an external
\* reason, the files hold the line of every call that has returned: each
\* line is in the active file or in an archive as many times as calls with
\* that line have returned.
C33_NoLineLost ==
  ~faults
    => \A c \in Calls :
         calls[c].pc = "returned"
           => Copies(calls[c].entry.formattedMessage)
                = Cardinality({d \in Calls :
                     /\ calls[d].pc = "returned"
                     /\ calls[d].entry.formattedMessage
                          = calls[c].entry.formattedMessage})

\* The positions of a line in the active file.
PositionsInActive(line) ==
  IF ActiveFile(config) \in DOMAIN fs
  THEN {p \in 1..Len(fs[ActiveFile(config)]) : fs[ActiveFile(config)][p] = line}
  ELSE {}

\* C34: of two calls with different lines, both in the active file, the
\* line of the call issued first (whose entry is first in the ring buffer)
\* is above the line of the other.
C34_FileOrderIsBufferOrder ==
  \A c, d \in Calls :
    (/\ c < d
     /\ calls[c].entry.formattedMessage # calls[d].entry.formattedMessage)
      => \A p \in PositionsInActive(calls[c].entry.formattedMessage),
            q \in PositionsInActive(calls[d].entry.formattedMessage) : p < q

\* C35: under any interleaving of log() calls, the ring buffer holds the
\* entries of the most recent calls in the order the calls were issued, a
\* session has one newLog for each call issued while it was connected, in
\* the order of issue, a subscriber has received entries in the order of
\* issue, and only the issue of a call changes the buffer, adds a newLog or
\* delivers an event.
C35_SyncPrefixIsAtomic ==
  /\ [](LET n == Cardinality(Issued)
        IN /\ Len(ingested) = n
           /\ \A c \in 1..n : ingested[c] = calls[c].entry
           /\ logBuffer = LastN(ingested, MAX_BUFFER_SIZE)
           /\ \A s \in Sessions :
                sessions[s].state # "none"
                  => LET end == IF sessions[s].state = "open" THEN n
                                ELSE sessions[s].left
                         news == OfType(sessions[s].inbox, "newLog")
                     IN news = [i \in 1..(end - sessions[s].joined) |->
                                  [type |-> "newLog",
                                   entries |-> <<ingested[sessions[s].joined + i]>>]]
           /\ \A cb \in Callbacks :
                \E from \in 0..n : received[cb] = SubSeq(ingested, from + 1, n))
  /\ [][(\A c \in Calls : calls[c].pc = "idle" <=> calls'[c].pc = "idle")
          => /\ logBuffer' = logBuffer
             /\ received' = received
             /\ \A s \in Sessions :
                  OfType(sessions'[s].inbox, "newLog")
                    = OfType(sessions[s].inbox, "newLog")
      ]_vars

\* C35, its case: a second and a third call were issued while the first had
\* not returned; the session, connected from the start, has their three
\* newLog messages in the order of issue, and the buffer has the last two.
C35_Witness ==
  /\ Len(ingested) = 3
  /\ calls[1].pc \notin {"idle", "returned"}
  /\ calls[2].pc = "returned"
  /\ ingested[1] # ingested[2]
  /\ ingested[2] # ingested[3]
  /\ sessions[1].state = "open"
  /\ sessions[1].joined = 0
  /\ Len(OfType(sessions[1].inbox, "newLog")) = 3
  /\ logBuffer = <<ingested[2], ingested[3]>>

\* C36: the configuration of an instance never has consoleOnly and fileOnly
\* both set, and every log() call that has returned wrote its line to the
\* console or went to the file sink.
C36_ModesStayExclusive ==
  instance
    => /\ ~(config.consoleOnly /\ config.fileOnly)
       /\ \A c \in Calls :
            calls[c].pc = "returned"
              => \E i \in 1..Len(calls[c].steps) :
                   calls[c].steps[i] \in {"console", "file"}

\* C37: the entry a log() call builds has a level of the level list that is
\* configured when the call is made.
C37_EntryLevelIsConfigured ==
  [][Len(ingested') = Len(ingested) + 1
       => ingested'[Len(ingested')].level \in Range(config.levels)
    ]_vars

\* C38: a log() call, whatever its values, is not rejected: it builds an
\* entry, and the entry is the newest one of the ring buffer and the entry
\* of the call.
C38_AnyValuesAreLogged ==
  [][\A c \in Calls :
       (calls[c].pc = "idle" /\ calls'[c].pc # "idle")
         => /\ calls'[c].pc # "rejected"
            /\ Len(ingested') = Len(ingested) + 1
            /\ calls'[c].entry = ingested'[Len(ingested')]
            /\ logBuffer'[Len(logBuffer')] = calls'[c].entry
    ]_vars

\* C39: with auth enabled, a request from an address of the allow-list
\* whose header is "Basic " and the encoding of the configured user name, a
\* colon and the configured password is dispatched to its route: it is
\* answered neither 401 nor 403.
C39_ConfiguredCredentialsPass ==
  LET auth == lastHttp.auth
  IN (/\ lastHttp # NoRequest
      /\ config.authEnabled
      /\ lastHttp.ip \in config.allowedIPs
      /\ Len(auth) = 3
      /\ auth[1] = "Basic"
      /\ auth[2] = " "
      /\ Base64Decode(<<auth[3]>>) = config.username \o <<":">> \o config.password)
       => /\ lastHttp.res.status \notin {401, 403}
          /\ lastHttp.res.route = RouteOf(lastHttp.path)

====
